---- MODULE Spec2Model ----
(***************************************************************************)
(* OfferDesk: conversation segmentation (ConversationSplitter, both the    *)
(* src/processing version and the older src/conversation_splitter.py) and  *)
(* conversation routing (ConversationRouter).                              *)
(*                                                                         *)
(* A text is a sequence of tokens.  A token stands for one unit of text:   *)
(* "NL" is a newline, "SP" a blank, "Conversation 1" a run that the        *)
(* pattern Conversation\s+\d+ matches, "w" an ordinary word.  Every token  *)
(* counts as one character for the chunker's length function.              *)
(***************************************************************************)
EXTENDS Integers, Sequences, FiniteSets, TLC

VARIABLES
    text,           \* split_by_conversations: the raw text handed in
    chunk_size,     \* ConversationSplitter.__init__: chunk_size
    chunk_overlap,  \* ConversationSplitter.__init__: chunk_overlap
    docs,           \* what processing/conversation_splitter.py returned
    docsLegacy,     \* what src/conversation_splitter.py returned
    called,         \* which split_by_conversations has returned, if any
    sourceId,       \* the source argument of that call
    conversations,  \* ConversationRouter.conversations
    detected_conversations, \* ConversationRouter.detected_conversations
    llm,            \* ConversationRouter.llm is set (an API key was given)
    lastCall,       \* the router call made last and what it returned
    prevCall,       \* the router call made before it
    calls,          \* how many router calls have been made
    pending,        \* the route call that waits in llm.invoke, if any
    threads,        \* the register calls that run at the same time: where
                    \* each one is in register_conversation_from_document
    rr_query,       \* rerank: the query
    rr_candidates,  \* rerank: the candidates, in retrieval order
    rr_weights,     \* rerank: the weights of the tiers
    rr_ranked,      \* rerank: what it returned
    rr_done,        \* rerank has returned
    ag_kind,        \* which RAGAgent: core/rag_agent.py or src/rag_agent.py
    local_mode,     \* RAGAgent.local_mode
    api_key,        \* an openai_api_key was given to RAGAgent
    ag_llm,         \* RAGAgent.llm is set
    ag_router,      \* RAGAgent.router is set
    vector_store,   \* VectorStoreManager.vector_store is set
    disk,           \* the documents of the collection under db_path
    initialized,    \* initialize() was called since creation or the last clear
    loaded,         \* load_documents added documents since creation or the last clear
    cleared,        \* whether clear_database was called, with neither
                    \* initialize nor a load_documents that added documents
                    \* since, and the documents it removed
    llm_invoked,    \* a language model was invoked by some call
    lastQuery,      \* the query call made last and what it returned
    similarity,     \* what the store's similarity search gave, per question and
                    \* filter, since the store last changed
    history,        \* what query returned first, per question and id, since the
                    \* last load_documents, initialize or clear_database
    ag_steps        \* how many agent calls have been made

splitVars == <<text, chunk_size, chunk_overlap, docs, docsLegacy, called, sourceId>>
routerVars == <<conversations, detected_conversations, llm, lastCall, prevCall, calls,
                pending, threads>>
rerankVars == <<rr_query, rr_candidates, rr_weights, rr_ranked, rr_done>>
agentVars == <<ag_kind, local_mode, api_key, ag_llm, ag_router, vector_store, disk,
               initialized, loaded, cleared, llm_invoked, lastQuery, similarity, history,
               ag_steps>>
vars == <<splitVars, routerVars, rerankVars, agentVars>>

None == "None"

\* ---------------------------------------------------------------- bounds
MaxBlocks == 4
ChunkSize == 3
ChunkOverlap == 1

\* ConversationSplitter.__init__ defaults
DefaultChunkSize == 1000
DefaultChunkOverlap == 200

\* ------------------------------------------------------------ text basics
NL == "NL"
SP == "SP"
Whitespace == {NL, SP}

\* The characters of a text with their offsets: a chunk keeps the offsets
\* of the source text it was cut from.
Annotate(t) == [i \in 1..Len(t) |-> [p |-> i, c |-> t[i]]]

Chars(s) == [i \in 1..Len(s) |-> s[i].c]

IsBlank(s) == \A i \in 1..Len(s) : s[i].c \in Whitespace

\* str.strip()
strip(s) ==
    IF IsBlank(s) THEN <<>>
    ELSE LET first == CHOOSE i \in 1..Len(s) :
                          /\ s[i].c \notin Whitespace
                          /\ \A j \in 1..(i - 1) : s[j].c \in Whitespace
             last  == CHOOSE i \in 1..Len(s) :
                          /\ s[i].c \notin Whitespace
                          /\ \A j \in (i + 1)..Len(s) : s[j].c \in Whitespace
         IN  SubSeq(s, first, last)

RECURSIVE Concat(_)
Concat(ss) == IF ss = <<>> THEN <<>> ELSE Head(ss) \o Concat(Tail(ss))

RECURSIVE SumLen(_)
SumLen(ss) == IF ss = <<>> THEN 0 ELSE Len(Head(ss)) + SumLen(Tail(ss))

\* ------------------------------------- RecursiveCharacterTextSplitter
\* separators=["\n\n", "\n", " ", ""], keep_separator and strip_whitespace
\* at their defaults (the separator stays at the head of the piece that
\* follows it; chunks are stripped and empty ones dropped).
Separators == << <<NL, NL>>, <<NL>>, <<SP>>, <<>> >>

MatchAt(s, sep, i) ==
    /\ i + Len(sep) - 1 <= Len(s)
    /\ \A k \in 1..Len(sep) : s[i + k - 1].c = sep[k]

HasSep(s, sep) == \E i \in 1..Len(s) : MatchAt(s, sep, i)

\* The starts of the occurrences of sep that re.split finds from i on:
\* leftmost first, never overlapping.
RECURSIVE SepStarts(_, _, _)
SepStarts(s, sep, i) ==
    IF i > Len(s) THEN {}
    ELSE IF MatchAt(s, sep, i) THEN {i} \cup SepStarts(s, sep, i + Len(sep))
    ELSE SepStarts(s, sep, i + 1)

\* The pieces of s cut at the sorted positions of cuts, empty pieces dropped.
RECURSIVE CutAt(_, _, _)
CutAt(s, cuts, from) ==
    LET later == {c \in cuts : c > from}
    IN  IF later = {} THEN
            IF from > Len(s) THEN <<>> ELSE <<SubSeq(s, from, Len(s))>>
        ELSE LET nxt == CHOOSE c \in later : \A d \in later : c <= d
             IN  <<SubSeq(s, from, nxt - 1)>> \o CutAt(s, cuts, nxt)

\* _split_text_with_regex(text, separator, keep_separator=True)
split_text_with_regex(s, sep) ==
    IF sep = <<>> THEN [i \in 1..Len(s) |-> <<s[i]>>]
    ELSE SelectSeq(CutAt(s, SepStarts(s, sep, 1), 1), LAMBDA x : x # <<>>)

\* _join_docs: the pieces joined, stripped; nothing when that leaves "".
join_docs(cur) ==
    LET joined == strip(Concat(cur))
    IN  IF joined = <<>> THEN <<>> ELSE <<joined>>

\* The while loop of _merge_splits: drop pieces from the head of the
\* current chunk until what stays fits the overlap and leaves room for d.
RECURSIVE DropHead(_, _, _, _)
DropHead(cur, d, size, overlap) ==
    LET total == SumLen(cur)
    IN  IF total > overlap \/ (total + Len(d) > size /\ total > 0)
        THEN DropHead(Tail(cur), d, size, overlap)
        ELSE cur

\* _merge_splits(splits, separator="")
RECURSIVE merge_loop(_, _, _, _, _)
merge_loop(splits, cur, out, size, overlap) ==
    IF splits = <<>> THEN out \o join_docs(cur)
    ELSE LET d == Head(splits)
         IN  IF SumLen(cur) + Len(d) > size /\ cur # <<>>
             THEN merge_loop(Tail(splits),
                             Append(DropHead(cur, d, size, overlap), d),
                             out \o join_docs(cur), size, overlap)
             ELSE merge_loop(Tail(splits), Append(cur, d), out, size, overlap)

merge_splits(splits, size, overlap) == merge_loop(splits, <<>>, <<>>, size, overlap)

\* _split_text(text, separators): the first separator present in the text
\* cuts it; pieces shorter than chunk_size are merged, longer ones are cut
\* again with the separators that remain.
RECURSIVE split_text_rec(_, _, _, _)
RECURSIVE split_pieces(_, _, _, _, _, _)
split_pieces(pieces, good, out, rest, size, overlap) ==
    IF pieces = <<>> THEN
        out \o (IF good = <<>> THEN <<>> ELSE merge_splits(good, size, overlap))
    ELSE LET p == Head(pieces)
         IN  IF Len(p) < size
             THEN split_pieces(Tail(pieces), Append(good, p), out, rest, size, overlap)
             ELSE split_pieces(Tail(pieces), <<>>,
                      out \o (IF good = <<>> THEN <<>>
                              ELSE merge_splits(good, size, overlap))
                          \o (IF rest = <<>> THEN <<p>>
                              ELSE split_text_rec(p, rest, size, overlap)),
                      rest, size, overlap)

split_text_rec(s, seps, size, overlap) ==
    LET k == CHOOSE i \in 1..Len(seps) :
                 /\ seps[i] = <<>> \/ HasSep(s, seps[i])
                 /\ \A j \in 1..(i - 1) : seps[j] # <<>> /\ ~HasSep(s, seps[j])
        sep  == seps[k]
        rest == IF sep = <<>> THEN <<>> ELSE SubSeq(seps, k + 1, Len(seps))
    IN  split_pieces(split_text_with_regex(s, sep), <<>>, <<>>, rest, size, overlap)

\* text_splitter.split_text(content)
split_text(s, size, overlap) == split_text_rec(s, Separators, size, overlap)

\* ------------------------------------------------ conversation headers
\* The tokens that Conversation\s+\d+(\.\d+)? matches under re.IGNORECASE,
\* with the id the pattern captures.
HeaderTokens == {"Conversation 1", "Conversation 2", "Conversation 2.1",
                 "Conversation 3", "conversation 4"}

HeaderId(tok) ==
    CASE tok = "Conversation 1"   -> "1"
      [] tok = "Conversation 2"   -> "2"
      [] tok = "Conversation 2.1" -> "2.1"
      [] tok = "Conversation 3"   -> "3"
      [] tok = "conversation 4"   -> "4"

\* \d+ alone stops before the dot of a dotted id.
IsDotted(tok) == tok = "Conversation 2.1"

Hashes == "##"
Colon == ":"

Max(S) == CHOOSE x \in S : \A y \in S : y <= x
Min(S) == CHOOSE x \in S : \A y \in S : x <= y

\* ^ under re.MULTILINE
LineStart(s, i) == i = 1 \/ s[i - 1].c = NL

AllWs(s, a, b) == \A k \in a..b : s[k].c \in Whitespace

\* \s*\n from a on, greedy: the last newline of the whitespace run; 0 when
\* the run holds none.
LastNewline(s, a) ==
    LET J == {j \in a..Len(s) : s[j].c = NL /\ AllWs(s, a, j)}
    IN  IF J = {} THEN 0 ELSE Max(J)

\* processing/conversation_splitter.py:
\*   (?:^|\n)(Conversation\s+(\d+(?:\.\d+)?))\s*\n
\* The header token at h opens a span when it starts its line and only
\* whitespace follows it up to a newline.  [from, h, to] is the match.
conversation_pattern(s) ==
    {[from |-> h, h |-> h, to |-> LastNewline(s, h + 1)] :
        h \in {i \in 1..Len(s) : /\ s[i].c \in HeaderTokens
                                 /\ LineStart(s, i)
                                 /\ LastNewline(s, i + 1) > 0}}

\* src/conversation_splitter.py:
\*   (?:^|\n)(?:#{1,3}\s*)?Conversation\s+(\d+)\s*:?\s*\n
\* Where the match of the header token at h starts: at heading markers that
\* start a line and are followed by whitespace only, else at h itself.
\* 0 when neither starts a line.
LegacyFrom(s, h) ==
    LET P == {p \in 1..(h - 1) : /\ s[p].c = Hashes
                                 /\ LineStart(s, p)
                                 /\ AllWs(s, p + 1, h - 1)}
    IN  IF P # {} THEN Min(P) ELSE IF LineStart(s, h) THEN h ELSE 0

\* \s*:?\s*\n after the header token at h: the first \s* takes the whole
\* whitespace run, a colon after it is taken when a newline follows in the
\* next run; otherwise the match ends at the last newline of the first run.
LegacyTo(s, h) ==
    LET run == Max({h} \cup {j \in (h + 1)..Len(s) : AllWs(s, h + 1, j)})
    IN  IF /\ run + 1 <= Len(s)
           /\ s[run + 1].c = Colon
           /\ LastNewline(s, run + 2) > 0
        THEN LastNewline(s, run + 2)
        ELSE LastNewline(s, h + 1)

conversation_pattern_legacy(s) ==
    {[from |-> LegacyFrom(s, h), h |-> h, to |-> LegacyTo(s, h)] :
        h \in {i \in 1..Len(s) : /\ s[i].c \in HeaderTokens
                                 /\ ~IsDotted(s[i].c)
                                 /\ LegacyFrom(s, i) > 0
                                 /\ LegacyTo(s, i) > 0}}

\* re.split(pattern, text): the matches in text order.  The newline just
\* before a header belongs to the match (the \n alternative) unless the
\* match before it has already taken it.
RECURSIVE SortMatches(_)
SortMatches(M) ==
    IF M = {} THEN <<>>
    ELSE LET m == CHOOSE x \in M : \A y \in M : x.h <= y.h
         IN  <<m>> \o SortMatches(M \ {m})

MatchFrom(ms, k) ==
    LET prevTo == IF k = 1 THEN 0 ELSE ms[k - 1].to
    IN  IF ms[k].from - 1 > prevTo THEN ms[k].from - 1 ELSE ms[k].from

\* parts[0]
IntroPart(s, ms) ==
    IF ms = <<>> THEN s ELSE SubSeq(s, 1, MatchFrom(ms, 1) - 1)

\* the part after the k-th header, running on to the end of the text
ContentPartToEnd(s, ms, k) == SubSeq(s, ms[k].to + 1, Len(s))

\* the part after the k-th header, up to the next match
ContentPart(s, ms, k) ==
    SubSeq(s, ms[k].to + 1,
           IF k = Len(ms) THEN Len(s) ELSE MatchFrom(ms, k + 1) - 1)

\* ------------------------------------------------------ _create_chunks
\* processing/conversation_splitter.py: metadata of chunk i of a span
ChunkMetadata(source, i, conversation_id, conv_header) ==
    IF conversation_id = None THEN
        [source |-> source, chunk |-> i, type |-> "conversation_section"]
    ELSE IF conv_header = None THEN
        [source |-> source, chunk |-> i, type |-> "conversation_section",
         conversation_id |-> conversation_id]
    ELSE
        [source |-> source, chunk |-> i, type |-> "conversation_section",
         conversation_id |-> conversation_id,
         conversation_header |-> conv_header]

\* The chunks of one span: content is the span's text (with its offsets).
create_chunks_unnumbered(content, source, conversation_id, conv_header, size, overlap) ==
    LET chunks == split_text(content, size, overlap)
    IN  [i \in 1..Len(chunks) |->
            [page_content |-> chunks[i],
             metadata |-> ChunkMetadata(source, 0, conversation_id, conv_header)]]

create_chunks(content, source, conversation_id, conv_header, size, overlap) ==
    LET chunks == split_text(content, size, overlap)
    IN  [i \in 1..Len(chunks) |->
            [page_content |-> chunks[i],
             metadata |-> ChunkMetadata(source, i - 1, conversation_id, conv_header)]]

\* src/conversation_splitter.py: _create_chunks has no conv_header.
create_chunks_legacy(content, source, conversation_id, size, overlap) ==
    create_chunks(content, source, conversation_id, None, size, overlap)

\* ---------------------------------------------- split_by_conversations
\* processing/conversation_splitter.py: the loop over parts, from span k on.
\* parts[0] is never read.
RECURSIVE SpanChunks(_, _, _, _, _, _)
SpanChunks(s, ms, k, source, size, overlap) ==
    IF k > Len(ms) THEN <<>>
    ELSE LET conv_header  == s[ms[k].h].c
             conv_id      == HeaderId(s[ms[k].h].c)
             conv_content == strip(ContentPart(s, ms, k))
             conv_docs    == IF conv_content = <<>> THEN <<>>
                             ELSE create_chunks(conv_content, source, conv_id,
                                                conv_header, size, overlap)
         IN  conv_docs \o SpanChunks(s, ms, k + 1, source, size, overlap)

split_by_conversations(t, source, size, overlap) ==
    LET s  == Annotate(t)
        ms == SortMatches(conversation_pattern(s))
    IN  SpanChunks(s, ms, 1, source, size, overlap)

\* src/conversation_splitter.py: the intro first, then the loop over parts.
RECURSIVE SpanChunksLegacy(_, _, _, _, _, _)
SpanChunksLegacy(s, ms, k, source, size, overlap) ==
    IF k > Len(ms) THEN <<>>
    ELSE LET conv_id      == HeaderId(s[ms[k].h].c)
             conv_content == strip(ContentPart(s, ms, k))
             conv_docs    == IF conv_content = <<>> THEN <<>>
                             ELSE create_chunks_legacy(conv_content, source,
                                                       conv_id, size, overlap)
         IN  conv_docs \o SpanChunksLegacy(s, ms, k + 1, source, size, overlap)

split_by_conversations_legacy(t, source, size, overlap) ==
    LET s     == Annotate(t)
        ms    == SortMatches(conversation_pattern_legacy(s))
        intro == IntroPart(s, ms)
        intro_docs == IF strip(intro) = <<>> THEN <<>>
                      ELSE create_chunks_legacy(intro, source, None, size, overlap)
    IN  intro_docs \o SpanChunksLegacy(s, ms, 1, source, size, overlap)

\* -------------------------------------------------- extract_conditions
\* str.lower() on a token
Lower(tok) ==
    CASE tok = "Deal"  -> "deal"
      [] tok = "Size"  -> "size"
      [] tok = "Stage" -> "stage"
      [] tok = "STAGE" -> "stage"
      [] tok = "Type"  -> "type"
      [] tok = "Prototype" -> "prototype"
      [] tok = "Price" -> "price"
      [] tok = "None"  -> "none"
      [] tok = "ID"    -> "id"
      [] tok = "Small" -> "small"
      [] tok = "Final" -> "final"
      [] tok = "Discovery"   -> "discovery"
      [] tok = "Negotiation" -> "negotiation"
      [] tok = "Competitive" -> "competitive"
      [] tok = "CPI" -> "cpi"
      [] tok = "Deal Context:" -> "deal context:"
      [] tok = "Outcome:" -> "outcome:"
      [] OTHER -> tok

\* the lower-cased token ends with the label: an unanchored pattern finds
\* "Type" at the end of "Prototype"
EndsWith(tok, label) ==
    \/ Lower(tok) = label
    \/ label = "type" /\ Lower(tok) = "prototype"

Comma == ","

\* \s* from a on: the last offset of the whitespace run (a - 1 when empty)
WsRunEnd(t, a) ==
    Max({a - 1} \cup {r \in a..Len(t) : \A k \in a..r : t[k] \in Whitespace})

\* \s*([^\n]+) from a on: where the captured group starts, 0 when it cannot
\* match.  \s* takes the whole run; at the end of the text it gives back
\* blanks until [^\n]+ has a character to take.
CaptureStart(t, a) ==
    LET r == WsRunEnd(t, a)
    IN  IF r < Len(t) THEN r + 1
        ELSE LET Q == {q \in a..r : t[q] # NL}
             IN  IF Q = {} THEN 0 ELSE Max(Q)

\* ([^\n]+) from a on: the rest of the line
RestOfLine(t, a) ==
    LET N == {n \in a..Len(t) : t[n] = NL}
    IN  SubSeq(t, a, IF N = {} THEN Len(t) ELSE Min(N) - 1)

\* str.strip() on a plain token sequence
StripTokens(t) == Chars(strip(Annotate(t)))

\* where label\s*:\s*([^\n]+) matches with the label token at i: the offset
\* the capture starts at, 0 when it does not match
LabelCapture(t, i, label) ==
    IF ~EndsWith(t[i], label) THEN 0
    ELSE LET c == WsRunEnd(t, i + 1) + 1
         IN  IF c <= Len(t) /\ t[c] = Colon THEN CaptureStart(t, c + 1) ELSE 0

\* Deal\s+Size\s*:\s*([^\n]+) with "Deal" at i
DealSizeCapture(t, i) ==
    IF ~EndsWith(t[i], "deal") THEN 0
    ELSE LET z == WsRunEnd(t, i + 1) + 1
         IN  IF z > i + 1 /\ z <= Len(t) /\ Lower(t[z]) = "size"
             THEN LabelCapture(t, z, "size") ELSE 0

\* re.search: <<group(1)>> of the leftmost match, <<>> without a match
SearchDealSize(t) ==
    LET M == {i \in 1..Len(t) : DealSizeCapture(t, i) > 0}
    IN  IF M = {} THEN <<>> ELSE <<RestOfLine(t, DealSizeCapture(t, Min(M)))>>

SearchLabel(t, label) ==
    LET M == {i \in 1..Len(t) : LabelCapture(t, i, label) > 0}
    IN  IF M = {} THEN <<>> ELSE <<RestOfLine(t, LabelCapture(t, Min(M), label))>>

\* str.split(',')
RECURSIVE SplitComma(_)
SplitComma(t) ==
    LET C == {i \in 1..Len(t) : t[i] = Comma}
    IN  IF C = {} THEN <<t>>
        ELSE <<SubSeq(t, 1, Min(C) - 1)>> \o SplitComma(SubSeq(t, Min(C) + 1, Len(t)))

\* the stage tags left as split(',') returns them
StageListUnstripped(group) == SplitComma(group)

\* [s.strip() for s in group.split(',')]
StageList(group) ==
    LET parts == SplitComma(group)
    IN  [i \in 1..Len(parts) |-> StripTokens(parts[i])]

NoFields == [f \in {} |-> <<>>]

\* extract_conditions(text): a field is set when its pattern matches
extract_conditions(t) ==
    LET deal_match  == SearchDealSize(t)
        stage_match == SearchLabel(t, "stage")
        type_match  == SearchLabel(t, "type")
    IN  (IF deal_match = <<>> THEN NoFields
         ELSE "deal_size" :> StripTokens(deal_match[1]))
        @@ (IF stage_match = <<>> THEN NoFields
            ELSE "stage" :> StageList(stage_match[1]))
        @@ (IF type_match = <<>> THEN NoFields
            ELSE "type" :> StripTokens(type_match[1]))

\* ------------------------------------------------------- input texts
\* Lines a document is put together from.
Blocks ==
    { <<"Conversation 1", NL>>,
      <<"Conversation 2.1", NL>>,
      <<Hashes, SP, "Conversation 3", NL>>,
      <<"conversation 4", Colon, NL>>,
      <<"Conversation 3">>,
      <<"w", "w", "w", "w", NL>>,
      <<"w", SP>>,
      <<NL>> }

RECURSIVE TextsOf(_)
TextsOf(n) ==
    IF n = 0 THEN {<<>>}
    ELSE LET shorter == TextsOf(n - 1)
         IN  shorter \cup {t \o b : t \in shorter, b \in Blocks}

Sources == {"deals.txt", "all_conversations.md"}

\* "Conversation 1\nDeal Size: < €1k\nStage: Discovery\n\nSmall deal text...
\*  \n\nConversation 2\nDeal Size: ~€2k\nStage: Final, Negotiation\n\n
\*  Competitive deal text..."
ScenarioText ==
    << "Conversation 1", NL,
       "Deal", SP, "Size", Colon, SP, "<", SP, "€1k", NL,
       "Stage", Colon, SP, "Discovery", NL, NL,
       "Small", SP, "deal", SP, "text...", NL, NL,
       "Conversation 2", NL,
       "Deal", SP, "Size", Colon, SP, "~€2k", NL,
       "Stage", Colon, SP, "Final", Comma, SP, "Negotiation", NL, NL,
       "Competitive", SP, "deal", SP, "text..." >>

\* --------------------------------------------- specification: splitting
\* ===================================================== ConversationRouter
\* src/conversation_router.py.  A descriptor is a record; one read from
\* conversations.json has whatever keys the file gave it.
HasKey(conv, k) == k \in DOMAIN conv

\* what a call gave back: a value, or the exception it let out
Ret(v) == [raised |-> FALSE, value |-> v]
Raise(e) == [raised |-> TRUE, value |-> e]

\* str.lower() over a text
LowerText(t) == [i \in 1..Len(t) |-> Lower(t[i])]

\* s[:n]
Prefix(s, n) == SubSeq(s, 1, IF Len(s) < n THEN Len(s) ELSE n)

\* -------------------------------------- _extract_keywords (frequency mode)
\* The class defines _extract_keywords twice; the second definition is the
\* one bound to the name.
stopwords == {"the", "for", "with", "this", "that", "you", "your"}

\* re.findall(r'\b[a-z]{3,}\b', ...) inside one lower-cased token
WordOf(tok) ==
    CASE tok \in {"deal", "size", "stage", "type", "price", "demo", "the",
                  "small", "discovery", "final", "negotiation",
                  "competitive", "budget", "none", "large"} -> <<tok>>
      [] tok = "text..." -> <<"text">>
      [] tok = "demos" -> <<"demos">>
      [] OTHER -> <<>>

RECURSIVE FindWords(_)
FindWords(t) == IF t = <<>> THEN <<>> ELSE WordOf(Head(t)) \o FindWords(Tail(t))

NotStopword(w) == w \notin stopwords

Count(ws, w) == Cardinality({i \in 1..Len(ws) : ws[i] = w})

FirstAt(ws, w) == Min({i \in 1..Len(ws) : ws[i] = w})

\* Counter(words).most_common(): by falling count, equal counts in the order
\* of first occurrence
RECURSIVE most_common(_, _)
most_common(ws, left) ==
    IF left = {} THEN <<>>
    ELSE LET w == CHOOSE x \in left : \A y \in left :
                      \/ Count(ws, x) > Count(ws, y)
                      \/ /\ Count(ws, x) = Count(ws, y)
                         /\ FirstAt(ws, x) <= FirstAt(ws, y)
         IN  <<w>> \o most_common(ws, left \ {w})

MostCommonLimit == 20
KeywordLimit == 15

extract_keywords(t) ==
    LET words == SelectSeq(FindWords(LowerText(t)), NotStopword)
        ranked == most_common(words, {words[i] : i \in 1..Len(words)})
    IN  Prefix(Prefix(ranked, MostCommonLimit), KeywordLimit)

\* ---------------------------------------- _extract_keywords (curated mode)
\* The first definition of _extract_keywords (lines 55-74), which the second
\* one replaces when the class body has run.
keyword_patterns ==
    <<"small", "large", "medium", "discovery", "qualification",
      "final", "closing", "negotiation", "competitive", "displacement",
      "renewal", "upsell", "technical", "integration", "api",
      "price", "pricing", "cost", "budget", "discount", "objection",
      "demo", "proposal", "evaluation", "€1k", "€2k", "€5k",
      "1k", "2k", "5k", "early", "stage">>

CuratedLimit == 10

\* the terms of the vocabulary that lie inside one lower-cased token
VocabularyIn(tok) ==
    CASE tok \in {"small", "large", "discovery", "final", "negotiation",
                  "competitive", "renewal", "price", "pricing", "budget",
                  "demo", "stage", "1k"} -> {tok}
      [] tok = "demos" -> {"demo"}
      [] tok = "€1k"   -> {"€1k", "1k"}
      [] tok = "~€2k"  -> {"€2k", "2k"}
      [] OTHER -> {}

extract_keywords_curated(t) ==
    LET text_lower == LowerText(t)
        Present(keyword) ==
            \E i \in 1..Len(text_lower) : keyword \in VocabularyIn(text_lower[i])
    IN  Prefix(SelectSeq(keyword_patterns, Present), CuratedLimit)

\* ---------------------------------------- _extract_conditions_from_text
\* the alternatives of a pattern that lie inside one lower-cased token
TokenHas(tok) ==
    CASE tok = "small"       -> {"small"}
      [] tok = "large"       -> {"large"}
      [] tok = "~€2k"        -> {"~2k"}
      [] tok = "discovery"   -> {"discovery"}
      [] tok = "final"       -> {"final"}
      [] tok = "negotiation" -> {"negotiation"}
      [] tok = "demo"        -> {"demo"}
      [] tok = "demos"       -> {"demo"}
      [] OTHER -> {}

\* <\s*€?\$?1k across tokens: "<", any blanks, a token opening with 1k
LtOneK(t) ==
    \E i \in 1..Len(t) : \E j \in (i + 1)..Len(t) :
        /\ t[i] = "<"
        /\ \A k \in (i + 1)..(j - 1) : t[k] \in Whitespace
        /\ t[j] \in {"€1k", "1k"}

SearchAny(t, alts) == \E i \in 1..Len(t) : TokenHas(t[i]) \cap alts # {}

extract_conditions_from_text(t) ==
    LET deal_size ==
            IF LtOneK(t) \/ SearchAny(t, {"small"}) THEN "deal_size" :> <<"<", SP, "€1k">>
            ELSE IF SearchAny(t, {"~2k", "2000", "medium"}) THEN "deal_size" :> <<"~€2k">>
            ELSE IF SearchAny(t, {">5k", "5000", "large", "enterprise"})
                 THEN "deal_size" :> <<">", SP, "€5k">>
            ELSE NoFields
        stages ==
            (IF SearchAny(t, {"discovery", "qualification"}) THEN << <<"discovery">> >> ELSE <<>>)
            \o (IF SearchAny(t, {"final", "closing", "negotiation"}) THEN << <<"final">> >> ELSE <<>>)
            \o (IF SearchAny(t, {"proposal", "demo", "evaluation"}) THEN << <<"proposal">> >> ELSE <<>>)
            \o (IF SearchAny(t, {"renewal", "upsell"}) THEN << <<"renewal">> >> ELSE <<>>)
    IN  deal_size @@ (IF stages # <<>> THEN "stage" :> stages ELSE NoFields)

\* ------------------------------------------------------- _keyword_route
\* keyword.lower() in query_lower: the keyword is a token of the query, or
\* lies inside one ("demo" in "demos")
InQuery(keyword, query_lower) ==
    \E i \in 1..Len(query_lower) :
        \/ query_lower[i] = Lower(keyword)
        \/ Lower(keyword) = "demo" /\ query_lower[i] = "demos"

\* conv.get('keywords', [])
KeywordsOf(conv) == IF HasKey(conv, "keywords") THEN conv.keywords ELSE <<>>

Score(conv, query_lower) ==
    Cardinality({i \in 1..Len(KeywordsOf(conv)) :
                     InQuery(KeywordsOf(conv)[i], query_lower)})

\* scores[conv['id']] = score: a key keeps the place it was first put at
Put(scores, id, score) ==
    IF \E i \in 1..Len(scores) : scores[i].id = id
    THEN [i \in 1..Len(scores) |->
             IF scores[i].id = id THEN [id |-> id, score |-> score] ELSE scores[i]]
    ELSE Append(scores, [id |-> id, score |-> score])

RECURSIVE ScoreLoop(_, _, _)
ScoreLoop(convs, query_lower, scores) ==
    IF convs = <<>> THEN scores
    ELSE LET conv == Head(convs)
             score == Score(conv, query_lower)
         IN  ScoreLoop(Tail(convs), query_lower,
                       IF score > 0 THEN Put(scores, conv.id, score) ELSE scores)

\* max(scores, key=scores.get): the first key with the highest score
BestOf(scores) ==
    LET top == Max({scores[i].score : i \in 1..Len(scores)})
    IN  scores[Min({i \in 1..Len(scores) : scores[i].score = top})].id

\* next(c['name'] for c in conversations if c['id'] == id): KeyError when
\* the descriptor found has no name
NameLookup(convs, id) ==
    LET k == Min({i \in 1..Len(convs) : convs[i].id = id})
    IN  HasKey(convs[k], "name")

keyword_route(convs, query) ==
    LET scores == ScoreLoop(convs, LowerText(query), <<>>)
    IN  IF scores # <<>>
        THEN LET best_conv == BestOf(scores)
             IN  IF NameLookup(convs, best_conv) THEN Ret(best_conv)
                 ELSE Raise("KeyError")
        ELSE Ret(None)

\* ------------------------------------------------------------ _ai_route
\* The descriptions are put together ahead of the try block: conv['name']
\* and conv['conditions'] of every descriptor are read there.
PromptBuilds(convs) ==
    \A i \in 1..Len(convs) :
        HasKey(convs[i], "name") /\ HasKey(convs[i], "conditions")

\* response.content.strip().lower()
Normalize(content) == LowerText(StripTokens(content))

\* any(c['id'] == conv_id for c in self.conversations)
IdTaken(convs, conv_id) == Len(conv_id) = 1

IdExists(convs, conv_id) ==
    \E i \in 1..Len(convs) : <<convs[i].id>> = conv_id

\* what llm.invoke(prompt) does: "raise", "nontext" (content is no string)
\* or "text" with the content given
ai_route_none_falls_back(convs, query, response) ==
    IF ~PromptBuilds(convs) THEN Raise("KeyError")
    ELSE IF response.kind # "text" THEN keyword_route(convs, query)
    ELSE LET conv_id == Normalize(response.content)
         IN  IF IdExists(convs, conv_id) THEN Ret(conv_id[1])
             ELSE keyword_route(convs, query)

ai_route(convs, query, response) ==
    IF ~PromptBuilds(convs) THEN Raise("KeyError")
    ELSE IF response.kind # "text" THEN keyword_route(convs, query)
    ELSE LET conv_id == Normalize(response.content)
         IN  IF conv_id = <<"none">> THEN Ret(None)
             ELSE IF IdExists(convs, conv_id) THEN Ret(conv_id[1])
             ELSE keyword_route(convs, query)

\* ---------------------------------------------------------- route_query
route_query(convs, has_llm, query, use_ai, response) ==
    IF convs = <<>> THEN Ret(None)
    ELSE IF use_ai /\ has_llm THEN ai_route(convs, query, response)
    ELSE keyword_route(convs, query)

\* ------------------------------------------------- get_conversation_info
\* <<conv>> for the first descriptor with the id, <<>> for None
get_conversation_info(convs, conv_id) ==
    LET K == {i \in 1..Len(convs) : convs[i].id = conv_id}
    IN  IF K = {} THEN <<>> ELSE <<convs[Min(K)]>>

\* ------------------------------------- register_conversation_from_document
SampleLimit == 1000
KeywordSampleLimit == 500

\* conversation_id in self.detected_conversations
AlwaysNew(detected, conversation_id) == FALSE

AlreadyRegistered(detected, conversation_id) == conversation_id \in DOMAIN detected

\* any(c['id'] == conversation_id for c in self.conversations)
NeverInList(convs, conversation_id) == FALSE

InList(convs, conversation_id) ==
    \E i \in 1..Len(convs) : convs[i].id = conversation_id

\* f"Conversation {conversation_id}" and " - {type}" when a type was found
NameOf(conversation_id, conditions) ==
    <<"Conversation", SP, conversation_id>>
    \o (IF HasKey(conditions, "type") /\ conditions.type # <<>>
        THEN <<SP, "-", SP>> \o conditions.type ELSE <<>>)

ConvInfo(conversation_id, content_sample) ==
    LET conditions == extract_conditions(Prefix(content_sample, SampleLimit))
        keywords == extract_keywords(Prefix(content_sample, KeywordSampleLimit))
    IN  [id |-> conversation_id,
         name |-> NameOf(conversation_id, conditions),
         conditions |-> conditions,
         keywords |-> keywords]

\* ----------------------------------------------- auto_detect_from_documents
\* doc.metadata.get('conversation_id'), kept when truthy
DocIds(documents) ==
    {documents[i].metadata.conversation_id :
        i \in {k \in 1..Len(documents) :
                  /\ HasKey(documents[k].metadata, "conversation_id")
                  /\ documents[k].metadata.conversation_id # ""}}

\* conv_contents[conv_id]: page_content[:500] of the documents of conv_id
ContentsOf(documents, conv_id) ==
    LET Mine(d) == /\ HasKey(d.metadata, "conversation_id")
                   /\ d.metadata.conversation_id = conv_id
        mine == SelectSeq(documents, Mine)
    IN  [i \in 1..Len(mine) |-> Prefix(mine[i].page_content, KeywordSampleLimit)]

\* " ".join(parts)
RECURSIVE JoinSP(_)
JoinSP(parts) ==
    IF parts = <<>> THEN <<>>
    ELSE IF Len(parts) = 1 THEN parts[1]
    ELSE parts[1] \o <<SP>> \o JoinSP(Tail(parts))

SampleContents == 2

\* str.isdigit() and int() on a conversation id
IsDigit(x) == x \in {"1", "2", "3"}

IntOf(x) == CASE x = "1" -> 1 [] x = "2" -> 2 [] x = "3" -> 3

SortKey(x) == IF IsDigit(x) THEN IntOf(x) ELSE 0

\* sorted(conv_ids, key=...): conv_ids is a set, whose iteration order is
\* not fixed; ids with equal keys stay in the order the set gave them
SortedOrders(conv_ids) ==
    {order \in [1..Cardinality(conv_ids) -> conv_ids] :
        /\ \A i, j \in DOMAIN order : i # j => order[i] # order[j]
        /\ \A i, j \in DOMAIN order : i < j => SortKey(order[i]) <= SortKey(order[j])}

\* " ".join(conv_contents[conv_id][:2]).lower()
SampleText(documents, conv_id) ==
    LowerText(JoinSP(Prefix(ContentsOf(documents, conv_id), SampleContents)))

Detected(documents, conv_id) ==
    LET sample_text == SampleText(documents, conv_id)
    IN  [id |-> conv_id,
         name |-> <<"Conversation", SP, conv_id>>,
         conditions |-> extract_conditions_from_text(sample_text),
         keywords |-> extract_keywords(sample_text)]

\* ---------------------------------------------------------- router inputs
MaxCalls == 3

\* conversations.json as written by hand: every entry has an id, the ids
\* differ, the other keys may be missing
StaticCatalogs ==
    { <<>>,
      << [id |-> "1", name |-> <<"Small", SP, "deals">>,
          conditions |-> ("deal_size" :> <<"<", SP, "€1k">>),
          keywords |-> <<"Price", "budget">>],
         [id |-> "2", name |-> <<"Demos">>,
          conditions |-> NoFields,
          keywords |-> <<"demo", "price", "budget">>] >>,
      << [id |-> "1", name |-> <<"Small", SP, "deals">>,
          keywords |-> <<"price">>] >>,
      << [id |-> "2", conditions |-> NoFields, keywords |-> <<"demo">>] >>,
      << [id |-> "3", name |-> <<"Renewals">>, conditions |-> NoFields] >> }

RegisterIds == {"1", "2.1"}

Samples ==
    { <<"Deal", SP, "Size", Colon, SP, "<", SP, "€1k", NL,
        "price", SP, "demo", SP, "price">>,
      <<"Type", Colon, SP, "Competitive", NL,
        "Stage", Colon, SP, "Final", Comma, SP, "Discovery", NL,
        "the", SP, "budget">> }

Chunk(conv_id, content) ==
    [page_content |-> content,
     metadata |-> [source |-> "deals.txt", conversation_id |-> conv_id]]

NoIdChunk == [page_content |-> <<"demo">>, metadata |-> [source |-> "deals.txt"]]

\* what a loader hands over: no document, documents without an id, several
\* chunks of one conversation, conversations in and out of numeric order
DocumentLists ==
    { <<>>,
      <<NoIdChunk>>,
      <<Chunk("1", <<"Small", SP, "deal", SP, "text...">>)>>,
      <<Chunk("1", <<"Small", SP, "deal", SP, "text...">>),
        Chunk("1", <<"Final", SP, "price">>)>>,
      <<Chunk("2.1", <<"~€2k", SP, "budget", SP, "demo", SP, "budget">>),
        NoIdChunk,
        Chunk("1", <<"Final", SP, "Discovery">>)>>,
      <<Chunk("1.5", <<"Discovery">>),
        Chunk("2.1", <<"~€2k", SP, "budget">>)>>,
      <<Chunk("3", <<"large">>),
        Chunk("1", <<"demos">>),
        Chunk("3", <<"Price">>)>> }

Queries ==
    { <<"Price", SP, "for", SP, "demos">>,
      <<"budget">>,
      <<"hello">> }

Responses ==
    { [kind |-> "raise", content |-> <<>>],
      [kind |-> "nontext", content |-> <<>>],
      [kind |-> "text", content |-> <<SP, "None", NL>>],
      [kind |-> "text", content |-> <<"1", NL>>],
      [kind |-> "text", content |-> <<"7">>],
      [kind |-> "text", content |-> <<"ID", SP, "1">>] }

NoResponse == [kind |-> "none", content |-> <<>>]

\* the call made last, with what it was given and what it gave back
Call(op, id, sample, documents, query, use_ai, response, ret) ==
    [op |-> op, id |-> id, sample |-> sample, documents |-> documents,
     query |-> query, use_ai |-> use_ai, response |-> response, ret |-> ret]

NoCall == Call("init", None, <<>>, <<>>, <<>>, FALSE, NoResponse, Ret(None))

Brief(call) == [op |-> call.op, id |-> call.id, sample |-> call.sample]

\* no call waits for the language model
NoPending == [waiting |-> FALSE, query |-> <<>>, answers |-> FALSE]

\* ===================================================== RelevanceReRanker
\* No file of the repository holds the re-ranker; it is written down from
\* section 4.6 of the specification. A text is a sequence of words with the
\* two markers as tokens of their own; a phrase occurs in a text when its
\* words stand there one after the other.
DealContextMarker == "deal context:"
OutcomeMarker == "outcome:"

Has(t, tok) == \E i \in 1..Len(t) : t[i] = tok

FirstIndex(t, tok) == Min({i \in 1..Len(t) : t[i] = tok})

Contains(t, phrase) ==
    \E i \in 1..(Len(t) - Len(phrase) + 1) :
        SubSeq(t, i, i + Len(phrase) - 1) = phrase

\* tier 1: the text up to the first "outcome:" of a chunk that has
\* "deal context:", nothing otherwise
SurfaceWholeText(chunk) == LowerText(chunk)

Surface(chunk) ==
    LET t == LowerText(chunk)
    IN  IF ~Has(t, DealContextMarker) THEN <<>>
        ELSE IF Has(t, OutcomeMarker) THEN SubSeq(t, 1, FirstIndex(t, OutcomeMarker) - 1)
        ELSE t

\* the text after the first "outcome:"
OutcomeSection(chunk) ==
    LET t == LowerText(chunk)
    IN  IF Has(t, OutcomeMarker) THEN SubSeq(t, FirstIndex(t, OutcomeMarker) + 1, Len(t))
        ELSE <<>>

\* the curated phrases of tier 2 and the broader keywords of tier 4
PrimaryPhrases == {<<"4th", "year">>, <<"commitment", "approved">>}

SecondaryKeywords == {"renewal", "clause", "pricing"}

\* tier 8: keyword sets with their bonus, the larger set ahead of its subset
RareCombinations(w) ==
    << [keys |-> {<<"linking", "renewal">>, <<"cpi">>}, bonus |-> w.rare_pair],
       [keys |-> {<<"cpi">>}, bonus |-> w.rare_single] >>

\* the number of characters of a word
WordLen(tok) ==
    CASE tok \in {"to"} -> 2
      [] tok \in {"4th", "cpi"} -> 3
      [] tok \in {"year", "asks"} -> 4
      [] tok \in {"hello"} -> 5
      [] tok \in {"clause"} -> 6
      [] tok \in {"linking", "renewal", "pricing"} -> 7
      [] tok \in {"customer", "discount", "approved"} -> 8
      [] tok \in {"commitment"} -> 10
      [] OTHER -> 1

\* tier 2
PrimaryHits(chunk) ==
    Cardinality({ph \in PrimaryPhrases : Contains(Surface(chunk), ph)})

PrimaryScore(w, chunk) == PrimaryHits(chunk) * w.primary

\* tier 3: every window of three words of the lower-cased query
PhraseScore(w, q, chunk) ==
    IF PrimaryScore(w, chunk) # 0 THEN 0
    ELSE w.phrase * Cardinality({i \in 1..(Len(q) - 2) :
                                    Contains(Surface(chunk), SubSeq(LowerText(q), i, i + 2))})

\* tier 4
SecondaryScore(w, chunk) ==
    IF PrimaryScore(w, chunk) # 0 THEN 0
    ELSE w.secondary * Cardinality({k \in SecondaryKeywords :
                                       Contains(Surface(chunk), <<k>>)})

\* tier 5: while tier 2 is below the weight of one primary hit
TermScore(w, q, chunk) ==
    IF PrimaryScore(w, chunk) >= w.primary THEN 0
    ELSE w.term * Cardinality({i \in 1..Len(q) :
                                  /\ WordLen(Lower(q[i])) > 4
                                  /\ Contains(Surface(chunk), <<Lower(q[i])>>)})

\* tier 6
OutcomeScore(w, q, chunk) ==
    IF PrimaryScore(w, chunk) # 0 \/ ~Has(LowerText(chunk), OutcomeMarker) THEN 0
    ELSE w.outcome * Cardinality({i \in 1..Len(q) :
                                     /\ WordLen(Lower(q[i])) > 3
                                     /\ Contains(OutcomeSection(chunk), <<Lower(q[i])>>)})

\* tier 7
CrossScore(w, q, chunk) ==
    IF Surface(chunk) = <<>> \/ OutcomeSection(chunk) = <<>> THEN 0
    ELSE w.cross * w.factor *
         Cardinality({i \in 1..Len(q) :
                         /\ Contains(Surface(chunk), <<Lower(q[i])>>)
                         /\ Contains(OutcomeSection(chunk), <<Lower(q[i])>>)})

\* tier 8
RECURSIVE RareScore(_, _)
RareScore(rules, chunk) ==
    IF rules = <<>> THEN 0
    ELSE (IF \A k \in Head(rules).keys : Contains(Surface(chunk), k)
          THEN Head(rules).bonus ELSE 0)
         + RareScore(Tail(rules), chunk)

TotalScore(w, q, chunk) ==
    PrimaryScore(w, chunk) + PhraseScore(w, q, chunk) + SecondaryScore(w, chunk)
    + TermScore(w, q, chunk) + OutcomeScore(w, q, chunk) + CrossScore(w, q, chunk)
    + RareScore(RareCombinations(w), chunk)

\* a candidate with its score and its place in the list handed in
ScoredCandidate(w, q, cands, i) ==
    [pos |-> i, chunk |-> cands[i], score |-> TotalScore(w, q, cands[i])]

\* a stable sort by descending score: a candidate goes behind every one
\* already placed whose score is not lower
InsertAhead(ranked, x) ==
    LET behind == {i \in 1..Len(ranked) : ranked[i].score > x.score}
        k == IF behind = {} THEN 0 ELSE Max(behind)
    IN  SubSeq(ranked, 1, k) \o <<x>> \o SubSeq(ranked, k + 1, Len(ranked))

InsertRanked(ranked, x) ==
    LET ahead == {i \in 1..Len(ranked) : ranked[i].score >= x.score}
        k == IF ahead = {} THEN 0 ELSE Max(ahead)
    IN  SubSeq(ranked, 1, k) \o <<x>> \o SubSeq(ranked, k + 1, Len(ranked))

RECURSIVE RankLoop(_, _, _, _, _)
RankLoop(w, q, cands, i, ranked) ==
    IF i > Len(cands) THEN ranked
    ELSE RankLoop(w, q, cands, i + 1,
                  InsertRanked(ranked, ScoredCandidate(w, q, cands, i)))

rerank(w, q, cands) == RankLoop(w, q, cands, 1, <<>>)

\* -------------------------------------------------------- re-ranker inputs
MaxCands == 2
MaxWeight == 5

\* the weights are not given; every weighting up to MaxWeight that keeps
\* the order of the tiers: primary above phrase, phrase above the rest,
\* the outcome tier lowest, the pair of keywords above the single one
Weightings ==
    {w \in [primary : 1..MaxWeight, phrase : 1..MaxWeight,
            secondary : {1}, term : {1}, outcome : {1},
            cross : {1}, factor : {2},
            rare_pair : {3}, rare_single : {1}] :
        /\ w.primary > w.phrase
        /\ w.phrase > w.secondary
        /\ w.phrase > w.cross * w.factor}

RerankQueries ==
    { <<"4th", "year", "linking", "renewal", "to", "CPI">>,
      <<"renewal", "pricing", "clause">>,
      <<"hello">> }

BaseChunks ==
    { <<"Deal Context:", "year", "linking", "renewal", "to", "cpi">>,
      <<"Deal Context:", "linking", "renewal", "to", "cpi",
        "Outcome:", "renewal", "approved">>,
      <<"Deal Context:", "customer", "asks", "discount",
        "Outcome:", "linking", "renewal", "cpi">>,
      <<"pricing", "renewal", "Outcome:", "renewal">> }

\* the chunk with the phrase put at the end of its Deal-Context section
AddPhrase(chunk, phrase) ==
    IF Has(LowerText(chunk), OutcomeMarker)
    THEN LET k == FirstIndex(LowerText(chunk), OutcomeMarker)
         IN  SubSeq(chunk, 1, k - 1) \o phrase \o SubSeq(chunk, k, Len(chunk))
    ELSE chunk \o phrase

CandidatePool ==
    BaseChunks \cup
    {AddPhrase(c, ph) : c \in {b \in BaseChunks : Has(LowerText(b), DealContextMarker)},
                        ph \in PrimaryPhrases}

CandidateLists ==
    UNION {[1..n -> CandidatePool] : n \in 0..MaxCands}

\* the re-ranker while other parts are looked at
RerankIdle ==
    /\ rr_query = <<>>
    /\ rr_candidates = <<>>
    /\ rr_weights = CHOOSE w \in Weightings : TRUE
    /\ rr_ranked = <<>>
    /\ rr_done = FALSE

\* ================================================================ RAGAgent
\* core/rag_agent.py with core/vector_store.py ("core") and src/rag_agent.py
\* with src/vector_store.py ("legacy"). A conversation id is a string; the
\* integer ids of the FAQ sections are written "int:1", "int:2", ...
MaxSections == 2

\* enumerate(sections, 1)
IntId(i) == CASE i = 1 -> "int:1" [] i = 2 -> "int:2" [] i = 3 -> "int:3"
              [] i = 4 -> "int:4"

\* int(conv_id): the integer itself, the integer a string of digits
\* stands for, ValueError for any other string
ToInt(conv_id) ==
    CASE conv_id \in {"int:1", "int:2", "int:3", "int:4"} -> Ret(conv_id)
      [] conv_id = "1" -> Ret("int:1")
      [] conv_id = "2" -> Ret("int:2")
      [] OTHER -> Raise("ValueError")

NoMetadataId == "N/A"

\* bool(x) of an optional id
Truthy(conv_id) == conv_id # None

\* _load_faq_documents: one document per section, conversation_id = idx
FaqDocuments(n) == {[doc |-> i, conversation_id |-> IntId(i)] : i \in 1..n}

\* DocumentLoader.load_directory: nothing, documents without an id, or the
\* chunks of split conversations with their string ids
LoadedDirectories ==
    { {},
      {[doc |-> 1, conversation_id |-> NoMetadataId]},
      {[doc |-> 1, conversation_id |-> "1"], [doc |-> 2, conversation_id |-> "2"]} }

\* RAGAgent.__init__ (lines 43-44 of src/rag_agent.py, 45-46 of core)
RoutingIfAsked(kind, use_conversation_routing, local) ==
    kind = "legacy" /\ use_conversation_routing

UseRouting(kind, use_conversation_routing, local) ==
    kind = "legacy" /\ use_conversation_routing /\ ~local

\* VectorStoreManager.search: the documents the store holds that pass the
\* filter, in the order the similarity measure gives them, k at most
Matching(stored, filter) ==
    IF filter = None THEN stored ELSE {d \in stored : d.conversation_id = filter}

Orders(S) ==
    {o \in [1..Cardinality(S) -> S] : \A i, j \in DOMAIN o : i # j => o[i] # o[j]}

SearchK == 5

similarity_search(stored, filter, k) ==
    {Prefix(o, k) : o \in Orders(Matching(stored, filter))}

\* src/vector_store.py: search(self, query, k) has no filter_metadata
\* parameter, so a call that passes one raises TypeError
search(kind, store, stored, filter, found) ==
    IF kind = "legacy" /\ filter # None THEN Raise("TypeError")
    ELSE IF ~store THEN Ret(<<>>)
    ELSE Ret(found)

\* the sources of the result: doc.metadata.get("conversation_id", "N/A")
SourcesOf(relevant_docs) ==
    [i \in 1..Len(relevant_docs) |-> relevant_docs[i].conversation_id]

\* core/rag_agent.py lines 207-210
KeepSelected(selected_conv_id, sources) == Ret(selected_conv_id)

FinalConvId(selected_conv_id, sources) ==
    IF ~Truthy(selected_conv_id) /\ sources # <<>>
    THEN IF sources[1] # NoMetadataId THEN ToInt(sources[1]) ELSE Ret(None)
    ELSE Ret(selected_conv_id)

\* An answer is a sequence of strings: what kind of answer it is, then
\* what its text is built from.
NotInitialized ==
    [answer |-> <<"Agent not initialized">>, sources |-> <<>>, conversation_id |-> None]

NothingFound(selected_conv_id) ==
    [answer |-> <<"No relevant">>, sources |-> <<>>,
     conversation_id |-> selected_conv_id]

\* _synthesize_answer_local: the rules of the documents in the order found,
\* then the guidance that the words of the question select
synthesize_answer_local(question, relevant_docs) ==
    <<"local", question>> \o SourcesOf(relevant_docs)

\* self.llm.invoke(prompt_text).content: ChatOpenAI with temperature 0.7
\* gives one of several texts for one prompt
LlmContents == {"text a", "text b"}

\* what self.router.route_query(question, use_ai=True) can give back
RouteOutcomes ==
    {route_query(c, l, q, TRUE, r) :
        c \in StaticCatalogs, l \in BOOLEAN, q \in Queries,
        r \in Responses \cup {NoResponse}}

\* the steps of query from the search on; llm_answers tells whether
\* self.llm.invoke returns or raises, content what it returns
Answered(kind, local, question, selected_conv_id, searched, llm_answers, content) ==
    IF searched.raised THEN searched
    ELSE IF searched.value = <<>> THEN Ret(NothingFound(selected_conv_id))
    ELSE IF ~local /\ ~llm_answers THEN Raise("LLMError")
    ELSE LET sources == SourcesOf(searched.value)
             final == IF kind = "core" THEN FinalConvId(selected_conv_id, sources)
                      ELSE Ret(selected_conv_id)
         IN  IF final.raised THEN final
             ELSE Ret([answer |-> IF local
                                  THEN synthesize_answer_local(question,
                                                               searched.value)
                                  ELSE <<"llm", content>>,
                       sources |-> sources,
                       conversation_id |-> final.value])

\* -------------------------------------------------------- agent inputs
MaxAgentSteps == 3

\* the ids a caller passes: none, ids that documents carry, one that none does
ExplicitIds == {None, "int:1", "1", "2.1"}

NotCleared == [on |-> FALSE, removed |-> {}]

\* the question a caller asks; the queries of a run differ in the id
Questions == {"q1"}

NoQuery ==
    [made |-> FALSE, question |-> "q1", explicit |-> None, routed |-> FALSE, selected |-> None,
     search |-> "none", filter |-> None, answered_by_llm |-> FALSE,
     was_initialized |-> FALSE, was_loaded |-> FALSE, was_cleared |-> NotCleared,
     ret |-> Ret(NotInitialized)]

\* the agent while other parts are looked at
AgentIdle ==
    /\ ag_kind = "core"
    /\ local_mode = TRUE
    /\ api_key = FALSE
    /\ ag_llm = FALSE
    /\ ag_router = FALSE
    /\ vector_store = FALSE
    /\ disk = {}
    /\ initialized = FALSE
    /\ loaded = FALSE
    /\ cleared = NotCleared
    /\ llm_invoked = FALSE
    /\ lastQuery = NoQuery
    /\ similarity = {}
    /\ history = {}
    /\ ag_steps = 0

\* --------------------------------------------------------------- router spec
SplitIdle ==
    /\ text = <<>>
    /\ chunk_size = DefaultChunkSize
    /\ chunk_overlap = DefaultChunkOverlap
    /\ docs = <<>>
    /\ docsLegacy = <<>>
    /\ called = {}
    /\ sourceId = None

\* the callers of one router, one per call that runs at the same time
Threads == {"A", "B"}

\* no call runs beside the one the caller makes
NoThreads ==
    [t \in Threads |-> [pc |-> "done", conversation_id |-> None,
                        content_sample |-> <<>>, alone |-> TRUE]]

InitRouter ==
    /\ conversations \in StaticCatalogs
    /\ detected_conversations = <<>>
    /\ llm \in BOOLEAN
    /\ lastCall = NoCall
    /\ prevCall = Brief(NoCall)
    /\ calls = 0
    /\ pending = NoPending
    /\ threads = NoThreads
    /\ SplitIdle
    /\ RerankIdle
    /\ AgentIdle

Record(call) ==
    /\ calls < MaxCalls
    /\ calls' = calls + 1
    /\ lastCall' = call
    /\ prevCall' = Brief(lastCall)
    /\ pending' = NoPending
    /\ UNCHANGED threads

register_conversation_from_document ==
    \E conversation_id \in RegisterIds : \E content_sample \in Samples :
        /\ IF AlreadyRegistered(detected_conversations, conversation_id)
           THEN UNCHANGED <<conversations, detected_conversations>>
           ELSE LET conv_info == ConvInfo(conversation_id, content_sample)
                IN  /\ detected_conversations' =
                           (conversation_id :> conv_info) @@ detected_conversations
                    /\ conversations' =
                           IF ~InList(conversations, conversation_id)
                           THEN Append(conversations, conv_info)
                           ELSE conversations
        /\ Record(Call("register", conversation_id, content_sample, <<>>, <<>>,
                       FALSE, NoResponse, Ret(None)))
        /\ UNCHANGED <<llm, splitVars, rerankVars, agentVars>>

auto_detect_from_documents ==
    \E documents \in DocumentLists :
        /\ LET conv_ids == DocIds(documents)
           IN  IF conv_ids = {} THEN UNCHANGED conversations
               ELSE \E order \in SortedOrders(conv_ids) :
                        conversations' =
                            [i \in 1..Len(order) |-> Detected(documents, order[i])]
        /\ Record(Call("auto_detect", None, <<>>, documents, <<>>,
                       FALSE, NoResponse, Ret(None)))
        /\ UNCHANGED <<detected_conversations, llm, splitVars, rerankVars, agentVars>>

\* route_query(query, use_ai); llm.invoke answers only when it is reached
InvokedOnEmpty(convs, has_llm, use_ai) ==
    use_ai /\ has_llm /\ PromptBuilds(convs)

Invoked(convs, has_llm, use_ai) ==
    convs # <<>> /\ use_ai /\ has_llm /\ PromptBuilds(convs)

RouteQuery ==
    \E query \in Queries : \E use_ai \in BOOLEAN :
    \E response \in IF Invoked(conversations, llm, use_ai)
                    THEN Responses ELSE {NoResponse} :
        /\ Record(Call("route", None, <<>>, <<>>, query, use_ai, response,
                       route_query(conversations, llm, query, use_ai, response)))
        /\ UNCHANGED <<conversations, detected_conversations, llm, splitVars, rerankVars, agentVars>>

NextRouter ==
    \/ register_conversation_from_document
    \/ auto_detect_from_documents
    \/ RouteQuery

SpecRouter == InitRouter /\ [][NextRouter]_vars

\* ------------------------------------------- route_query, step by step
\* route_query up to llm.invoke(prompt) (line 233): the call is made with
\* nothing but the prompt, on a client built without a timeout (lines
\* 17-21), and blocks until the collaborator answers, which it may never do
RouteInvoke ==
    \E query \in Queries : \E answers \in BOOLEAN :
        /\ Invoked(conversations, llm, TRUE)
        /\ pending' = [waiting |-> TRUE, query |-> query, answers |-> answers]
        /\ UNCHANGED <<conversations, detected_conversations, llm, lastCall,
                       prevCall, calls, threads, splitVars, rerankVars, agentVars>>

\* llm.invoke returns or raises, and route_query runs to its end
LlmReturns ==
    \E response \in Responses :
        /\ pending.waiting
        /\ pending.answers
        /\ Record(Call("route", None, <<>>, <<>>, pending.query, TRUE, response,
                       route_query(conversations, llm, pending.query, TRUE, response)))
        /\ UNCHANGED <<conversations, detected_conversations, llm, splitVars, rerankVars, agentVars>>

\* a route call that does not reach llm.invoke
RouteDirect ==
    \E query \in Queries : \E use_ai \in BOOLEAN :
        /\ ~Invoked(conversations, llm, use_ai)
        /\ Record(Call("route", None, <<>>, <<>>, query, use_ai, NoResponse,
                       route_query(conversations, llm, query, use_ai, NoResponse)))
        /\ UNCHANGED <<conversations, detected_conversations, llm, splitVars, rerankVars, agentVars>>

\* how many calls a behaviour of the stepwise specification makes
MaxLiveCalls == 2

Idle == ~pending.waiting /\ calls < MaxLiveCalls

\* the caller is single-threaded: no other call starts while one waits
NextRouterLive ==
    \/ Idle /\ register_conversation_from_document
    \/ Idle /\ auto_detect_from_documents
    \/ Idle /\ RouteDirect
    \/ Idle /\ RouteInvoke
    \/ LlmReturns

\* once llm.invoke can return, route_query goes on and returns
SpecRouterLive == InitRouter /\ [][NextRouterLive]_vars /\ WF_vars(LlmReturns)

\* the router as it is while only the splitter is looked at
RouterIdle ==
    /\ conversations = <<>>
    /\ detected_conversations = <<>>
    /\ llm = FALSE
    /\ lastCall = NoCall
    /\ prevCall = Brief(NoCall)
    /\ calls = 0
    /\ pending = NoPending
    /\ threads = NoThreads

\* ============================================================ splitter spec
InitSplit ==
    /\ \/ /\ text \in TextsOf(MaxBlocks)
          /\ chunk_size = ChunkSize
          /\ chunk_overlap = ChunkOverlap
       \/ /\ text = ScenarioText
          /\ chunk_size = DefaultChunkSize
          /\ chunk_overlap = DefaultChunkOverlap
    /\ docs = <<>>
    /\ docsLegacy = <<>>
    /\ called = {}
    /\ sourceId = None
    /\ RouterIdle
    /\ RerankIdle
    /\ AgentIdle

\* ConversationSplitter(...).split_by_conversations(text, source),
\* processing/conversation_splitter.py
Split ==
    /\ called = {}
    /\ called' = {"processing"}
    /\ \E src \in Sources :
           /\ sourceId' = src
           /\ docs' = split_by_conversations(text, src, chunk_size, chunk_overlap)
    /\ UNCHANGED <<text, chunk_size, chunk_overlap, docsLegacy, routerVars, rerankVars, agentVars>>

\* the same call on src/conversation_splitter.py
SplitLegacy ==
    /\ called = {}
    /\ called' = {"legacy"}
    /\ \E src \in Sources :
           /\ sourceId' = src
           /\ docsLegacy' = split_by_conversations_legacy(text, src, chunk_size,
                                                          chunk_overlap)
    /\ UNCHANGED <<text, chunk_size, chunk_overlap, docs, routerVars, rerankVars, agentVars>>

NextSplit == Split \/ SplitLegacy

SpecSplit == InitSplit /\ [][NextSplit]_vars

\* ============================================================ re-ranker spec
InitRerank ==
    /\ rr_query \in RerankQueries
    /\ rr_candidates \in CandidateLists
    /\ rr_weights \in Weightings
    /\ rr_ranked = <<>>
    /\ rr_done = FALSE
    /\ SplitIdle
    /\ RouterIdle
    /\ AgentIdle

Rerank ==
    /\ ~rr_done
    /\ rr_done' = TRUE
    /\ rr_ranked' = rerank(rr_weights, rr_query, rr_candidates)
    /\ UNCHANGED <<rr_query, rr_candidates, rr_weights, splitVars, routerVars, agentVars>>

NextRerank == Rerank

SpecRerank == InitRerank /\ [][NextRerank]_vars

\* ================================================================ agent spec
\* RAGAgent(openai_api_key, use_conversation_routing, local_mode)
InitAgent ==
    /\ ag_kind \in {"core", "legacy"}
    /\ local_mode \in BOOLEAN
    /\ api_key \in BOOLEAN
    /\ ag_llm = ~local_mode
    /\ \E use_conversation_routing \in BOOLEAN :
           ag_router = UseRouting(ag_kind, use_conversation_routing, local_mode)
    /\ vector_store = FALSE
    /\ disk \in {{}, FaqDocuments(1)}
    /\ initialized = FALSE
    /\ loaded = FALSE
    /\ cleared = NotCleared
    /\ llm_invoked = FALSE
    /\ lastQuery = NoQuery
    /\ similarity = {}
    /\ history = {}
    /\ ag_steps = 0
    /\ SplitIdle
    /\ RouterIdle
    /\ RerankIdle

Step ==
    /\ ag_steps < MaxAgentSteps
    /\ ag_steps' = ag_steps + 1
    /\ UNCHANGED <<ag_kind, local_mode, api_key, ag_llm, ag_router,
                   splitVars, routerVars, rerankVars>>

\* load_documents: the documents go to add_documents, which creates the
\* store when there is none. The router registers the conversations found
\* without a language model.
load_documents ==
    \E documents \in IF ag_kind = "core"
                     THEN {FaqDocuments(n) : n \in 1..MaxSections}
                     ELSE LoadedDirectories :
        /\ IF documents # {}
           THEN /\ vector_store' = TRUE /\ disk' = disk \cup documents
                /\ loaded' = TRUE /\ cleared' = NotCleared /\ similarity' = {}
           ELSE UNCHANGED <<vector_store, disk, loaded, cleared, similarity>>
        /\ history' = {}
        /\ UNCHANGED <<initialized, llm_invoked, lastQuery>>
        /\ Step

\* initialize: load_vector_store opens the collection under db_path, or
\* leaves None when that raises
initialize ==
    \E loads \in BOOLEAN :
        /\ vector_store' = loads
        /\ initialized' = TRUE
        /\ cleared' = NotCleared
        /\ similarity' = {}
        /\ history' = {}
        /\ UNCHANGED <<disk, loaded, llm_invoked, lastQuery>>
        /\ Step

\* clear_database: the directory under db_path is removed and the store
\* is set to None
clear_keeps_store ==
    /\ disk' = {}
    /\ initialized' = FALSE
    /\ loaded' = FALSE
    /\ cleared' = [on |-> TRUE, removed |-> disk]
    /\ similarity' = {}
    /\ history' = {}
    /\ UNCHANGED <<vector_store, llm_invoked, lastQuery>>
    /\ Step

clear_database ==
    /\ vector_store' = FALSE
    /\ disk' = {}
    /\ initialized' = FALSE
    /\ loaded' = FALSE
    /\ cleared' = [on |-> TRUE, removed |-> disk]
    /\ similarity' = {}
    /\ history' = {}
    /\ UNCHANGED <<llm_invoked, lastQuery>>
    /\ Step

\* what the similarity search gives for a question and a filter: what it
\* gave before when the store has not changed since, any order of the
\* matching documents otherwise
Remembered(question, filter) ==
    {m.found : m \in {x \in similarity : x.question = question /\ x.filter = filter}}

SearchResults(question, filter) ==
    IF Remembered(question, filter) # {} THEN Remembered(question, filter)
    ELSE similarity_search(disk, filter, SearchK)

\* the first result of each query since the store was last set up, and
\* how many times the query was made
Noted(question, conversation_id, ret) ==
    LET same(h) == h.question = question /\ h.explicit = conversation_id
    IN  IF \E h \in history : same(h)
        THEN {IF same(h) THEN [h EXCEPT !.times = h.times + 1] ELSE h : h \in history}
        ELSE history \cup {[question |-> question, explicit |-> conversation_id,
                            ret |-> ret, times |-> 1]}

\* query assigns to no attribute of the agent or of the store manager
QueryEmptiesStore ==
    /\ disk' = {}
    /\ UNCHANGED <<vector_store, initialized, loaded, cleared>>

QueryFrame == UNCHANGED <<vector_store, disk, initialized, loaded, cleared>>

\* query(question, conversation_id) on a store that is not set
QueryNotInitialized ==
    \E question \in Questions : \E conversation_id \in ExplicitIds :
        /\ ~vector_store
        /\ lastQuery' = [NoQuery EXCEPT !.made = TRUE, !.question = question,
                                         !.explicit = conversation_id,
                                         !.was_initialized = initialized,
                                         !.was_loaded = loaded,
                                         !.was_cleared = cleared]
        /\ history' = Noted(question, conversation_id, Ret(NotInitialized))
        /\ QueryFrame
        /\ UNCHANGED <<llm_invoked, similarity>>
        /\ Step

\* query(question, conversation_id) on a store that is set
Query ==
    \E question \in Questions : \E conversation_id \in ExplicitIds :
    \E route \in IF conversation_id = None /\ ag_router
                 THEN RouteOutcomes ELSE {Ret(conversation_id)} :
    \E router_llm \in IF conversation_id = None /\ ag_router /\ api_key
                      THEN BOOLEAN ELSE {FALSE} :
    \E llm_answers \in BOOLEAN : \E content \in LlmContents :
        /\ vector_store
        /\ LET routed == conversation_id = None /\ ag_router
               selected_conv_id == route.value
               filter == IF Truthy(selected_conv_id) THEN selected_conv_id ELSE None
           IN  IF route.raised
               THEN /\ lastQuery' = [made |-> TRUE, question |-> question,
                                     explicit |-> conversation_id,
                                     routed |-> routed, selected |-> None,
                                     search |-> "none", filter |-> None,
                                     answered_by_llm |-> FALSE,
                                     was_initialized |-> initialized,
                                     was_loaded |-> loaded,
                                     was_cleared |-> cleared, ret |-> route]
                    /\ llm_invoked' = (llm_invoked \/ router_llm)
                    /\ history' = Noted(question, conversation_id, route)
                    /\ UNCHANGED similarity
               ELSE \E found \in SearchResults(question, filter) :
                    LET searched == search(ag_kind, vector_store, disk, filter, found)
                        ret == Answered(ag_kind, local_mode, question, selected_conv_id,
                                        searched, llm_answers, content)
                        asked == /\ ~searched.raised
                                 /\ searched.value # <<>>
                                 /\ ~local_mode
                    IN  /\ lastQuery' =
                               [made |-> TRUE, question |-> question,
                                explicit |-> conversation_id,
                                routed |-> routed, selected |-> selected_conv_id,
                                search |-> IF filter = None THEN "unfiltered"
                                           ELSE IF searched.raised THEN "failed"
                                           ELSE "filtered",
                                filter |-> filter,
                                answered_by_llm |-> asked,
                                was_initialized |-> initialized,
                                was_loaded |-> loaded,
                                was_cleared |-> cleared, ret |-> ret]
                        /\ llm_invoked' = (llm_invoked \/ router_llm \/ asked)
                        /\ history' = Noted(question, conversation_id, ret)
                        /\ similarity' =
                               IF searched.raised THEN similarity
                               ELSE similarity \cup
                                    {[question |-> question, filter |-> filter,
                                      found |-> found]}
        /\ QueryFrame
        /\ Step

NextAgent ==
    \/ load_documents
    \/ initialize
    \/ clear_database
    \/ QueryNotInitialized
    \/ Query

SpecAgent == InitAgent /\ [][NextAgent]_vars

\* ------------------------------------------- what a segmentation returned
Segmented == called # {}

\* the chunks the call returned, and the header matches of its pattern
Emitted == IF "processing" \in called THEN docs ELSE docsLegacy

Found ==
    IF "processing" \in called
    THEN SortMatches(conversation_pattern(Annotate(text)))
    ELSE SortMatches(conversation_pattern_legacy(Annotate(text)))

Offsets(d) == {d.page_content[j].p : j \in 1..Len(d.page_content)}

HasId(d) == "conversation_id" \in DOMAIN d.metadata

\* the span a chunk was cut from: 0 the intro, k the span of the k-th header
SpanOf(d, ms) == Cardinality({k \in 1..Len(ms) : \A o \in Offsets(d) : ms[k].h < o})

InHeader(ms) == UNION {ms[k].from..ms[k].to : k \in 1..Len(ms)}

\* offsets of the text before the first header the call found
IntroOffsets(ms) ==
    {i \in 1..Len(text) : ms = <<>> \/ i < ms[1].from}

NonBlankOffsets == {i \in 1..Len(text) : text[i] \notin Whitespace}

Covered(ds) == UNION {Offsets(ds[i]) : i \in 1..Len(ds)}

\* C5 (as claimed): the chunks, in emission order, hold every non-blank
\* part of the text outside the header lines, the text before the first
\* header included.
C5_Coverage ==
    Segmented =>
        /\ (NonBlankOffsets \ InHeader(Found)) \subseteq Covered(Emitted)
        /\ \A i \in 1..(Len(Emitted) - 1) :
               Min(Offsets(Emitted[i])) <= Min(Offsets(Emitted[i + 1]))

\* src/conversation_splitter.py alone does cover the text.
LegacyCoverage ==
    "legacy" \in called =>
        (NonBlankOffsets \ InHeader(Found)) \subseteq Covered(docsLegacy)

C7_IntroEmitted ==
    Segmented =>
        LET ds == Emitted
            intro == IntroOffsets(Found) \cap NonBlankOffsets
        IN  intro # {} =>
                /\ Len(ds) > 0
                /\ ~HasId(ds[1])
                /\ intro \subseteq UNION {Offsets(ds[i]) :
                                             i \in {k \in 1..Len(ds) : ~HasId(ds[k])}}
                /\ \A i \in 1..Len(ds) : \A j \in i..Len(ds) :
                       HasId(ds[i]) => HasId(ds[j])

\* src/conversation_splitter.py alone does emit the intro.
LegacyIntroEmitted == "legacy" \in called => C7_IntroEmitted

\* The chunks of a span are emitted together, in source
\* order, numbered 0, 1, ...; every chunk has source = sourceId and type
\* "conversation_section"; the chunks of a header's span carry the id the
\* header captured and the raw header text; spans come in header order.
ChunkMetadataOk(ds, ms) ==
    /\ \A i \in 1..Len(ds) :
           /\ ds[i].metadata.source = sourceId
           /\ ds[i].metadata.type = "conversation_section"
           /\ ds[i].metadata.chunk =
                  Cardinality({j \in 1..(i - 1) : SpanOf(ds[j], ms) = SpanOf(ds[i], ms)})
    /\ \A i \in 1..Len(ds) : \A j \in i..Len(ds) :
           /\ SpanOf(ds[i], ms) <= SpanOf(ds[j], ms)
           /\ SpanOf(ds[i], ms) = SpanOf(ds[j], ms)
                  => Min(Offsets(ds[i])) <= Min(Offsets(ds[j]))
    /\ \A i \in 1..Len(ds) :
           SpanOf(ds[i], ms) > 0 =>
               LET hdr == text[ms[SpanOf(ds[i], ms)].h]
               IN  /\ HasId(ds[i])
                   /\ ds[i].metadata.conversation_id = HeaderId(hdr)
                   /\ "conversation_header" \in DOMAIN ds[i].metadata
                   /\ ds[i].metadata.conversation_header = hdr

\* C8 (as claimed): every chunk either implementation returns has this
\* metadata.
C8_ChunkMetadata == Segmented => ChunkMetadataOk(Emitted, Found)

\* processing/conversation_splitter.py alone does attach all of it.
ProcessingChunkMetadata == "processing" \in called => ChunkMetadataOk(docs, Found)

\* The header lines of the specification are the lines "Conversation <N>", N an
\* integer or a dotted sub-id, in any case, with optional heading markers
\* before and an optional colon after.  h is the offset of such a line's
\* header token, FormEnd its newline, FormStart its first token.
FormStart(h) ==
    IF \E p \in 1..(h - 1) : /\ text[p] = Hashes
                             /\ \A k \in (p + 1)..(h - 1) : text[k] = SP
    THEN CHOOSE p \in 1..(h - 1) : /\ text[p] = Hashes
                                   /\ \A k \in (p + 1)..(h - 1) : text[k] = SP
    ELSE h

FormEnds(h) ==
    {e \in (h + 1)..Len(text) :
        /\ text[e] = NL
        /\ \A k \in (h + 1)..(e - 1) : text[k] \in {SP, Colon}
        /\ Cardinality({k \in (h + 1)..(e - 1) : text[k] = Colon}) <= 1}

FormHeaders ==
    {h \in 1..Len(text) :
        /\ text[h] \in HeaderTokens
        /\ FormStart(h) = 1 \/ text[FormStart(h) - 1] = NL
        /\ FormEnds(h) # {}}

\* the text that belongs to the header line at h: from the end of its line
\* to the next header line
FormRegion(h) ==
    LET later == {g \in FormHeaders : g > h}
        stop  == IF later = {} THEN Len(text) + 1 ELSE FormStart(Min(later))
    IN  (Min(FormEnds(h)) + 1)..(stop - 1)

\* C9 (as claimed): each line of the forms "Conversation <N>", "Conversation
\* <N.M>", "## Conversation <N>" and "conversation <N>:" opens a span with
\* the id of the line (its text is in chunks that carry the id), and nothing
\* else does (a chunk with an id lies in the region of such a line).
C9_HeaderForms ==
    Segmented =>
        LET ds == Emitted
        IN  /\ \A h \in FormHeaders :
                   (FormRegion(h) \cap NonBlankOffsets) \subseteq
                       UNION {Offsets(ds[i]) :
                                 i \in {k \in 1..Len(ds) :
                                           /\ HasId(ds[k])
                                           /\ ds[k].metadata.conversation_id
                                                  = HeaderId(text[h])}}
            /\ \A i \in 1..Len(ds) :
                   HasId(ds[i]) =>
                       \E h \in FormHeaders :
                           /\ HeaderId(text[h]) = ds[i].metadata.conversation_id
                           /\ Offsets(ds[i]) \subseteq FormRegion(h)

Routed == lastCall.op = "route"

\* the collaborator failed in the call made last: it raised, gave no text,
\* gave text that is neither "none" nor an id of the catalog, or was not
\* reached at all
LlmFailed ==
    \/ lastCall.response.kind \in {"raise", "nontext", "none"}
    \/ /\ lastCall.response.kind = "text"
       /\ Normalize(lastCall.response.content) # <<"none">>
       /\ ~IdExists(conversations, Normalize(lastCall.response.content))

\* C1: when the LLM collaborator fails, route(query, use_ai = True) returns
\* exactly what keywordRoute(query) returns on the same catalog.
C1_FallbackIsKeywordRoute ==
    (Routed /\ lastCall.use_ai /\ LlmFailed) =>
        lastCall.ret = keyword_route(conversations, lastCall.query)

\* C2: on a non-empty catalog route(query, use_ai = True) returns an id or
\* None and never lets an exception out, whatever happens on the augmented
\* path, a failure while the prompt is built included.
C2_RouteNeverRaises ==
    (Routed /\ lastCall.use_ai /\ conversations # <<>>) =>
        /\ ~lastCall.ret.raised
        /\ \/ lastCall.ret.value = None
           \/ get_conversation_info(conversations, lastCall.ret.value) # <<>>

\* C3: a registerFromDocument(id, sampleB) that follows a
\* registerFromDocument(id, sampleA) leaves the descriptor held for id, in
\* the list and among the detected conversations, and the length of the
\* list as the first call left them.
C3_RegisterIdempotent ==
    [][(/\ lastCall.op = "register"
        /\ lastCall'.op = "register"
        /\ lastCall'.id = lastCall.id)
       => /\ get_conversation_info(conversations', lastCall.id)
                 = get_conversation_info(conversations, lastCall.id)
          /\ Len(conversations') = Len(conversations)
          /\ lastCall.id \in DOMAIN detected_conversations
          /\ lastCall.id \in DOMAIN detected_conversations'
          /\ detected_conversations'[lastCall.id]
                 = detected_conversations[lastCall.id]]_vars

\* the second of two registrations of one id, made with a sample that gives
\* another descriptor than the one held
C3_Witness ==
    /\ lastCall.op = "register"
    /\ prevCall.op = "register"
    /\ prevCall.id = lastCall.id
    /\ prevCall.sample # lastCall.sample
    /\ lastCall.id \in DOMAIN detected_conversations
    /\ detected_conversations[lastCall.id] # ConvInfo(lastCall.id, lastCall.sample)
    /\ get_conversation_info(conversations, lastCall.id) # <<>>

\* C4: from a catalog with pairwise distinct ids, whatever calls of
\* registerFromDocument and autoDetect are made, the list holds at most one
\* descriptor per conversation id.
C4_OneDescriptorPerId ==
    \A i \in 1..Len(conversations) : \A j \in 1..Len(conversations) :
        conversations[i].id = conversations[j].id => i = j

\* a registration of an id that autoDetect had put in the list just before,
\* the list holding other conversations too
C4_Witness ==
    /\ lastCall.op = "register"
    /\ prevCall.op = "auto_detect"
    /\ Len(conversations) >= 2
    /\ lastCall.id \in DOMAIN detected_conversations
    /\ get_conversation_info(conversations, lastCall.id) # <<>>
    /\ get_conversation_info(conversations, lastCall.id)
           # <<detected_conversations[lastCall.id]>>

\* ------------------------------------------------------------------- C13
\* the call was decided by _keyword_route alone: the catalog has descriptors
\* and the language model was not asked
KeywordRouted ==
    /\ Routed
    /\ conversations # <<>>
    /\ ~(lastCall.use_ai /\ llm)

\* the number of keywords of the i-th descriptor that occur in the
\* lower-cased query
Hits(i) ==
    Cardinality({k \in 1..Len(KeywordsOf(conversations[i])) :
                    InQuery(KeywordsOf(conversations[i])[k], LowerText(lastCall.query))})

TopHits == Max({Hits(i) : i \in 1..Len(conversations)})

\* C13: keywordRoute returns the id of the descriptor with the most keyword
\* hits in the query, the earliest of the catalog among those with the
\* highest count, and returns None exactly when no descriptor has a hit.
C13_KeywordRoute ==
    KeywordRouted =>
        IF TopHits = 0 THEN lastCall.ret = Ret(None)
        ELSE lastCall.ret =
                 Ret(conversations[Min({i \in 1..Len(conversations) :
                                           Hits(i) = TopHits})].id)

\* the same for the catalogs whose best descriptor carries a name
KeywordRouteNamed ==
    (KeywordRouted /\ ~lastCall.ret.raised) => C13_KeywordRoute

\* a tie at the top, decided for the first descriptor
KeywordRouteTie ==
    /\ KeywordRouted
    /\ TopHits > 0
    /\ Cardinality({i \in 1..Len(conversations) : Hits(i) = TopHits}) > 1
    /\ lastCall.ret = Ret(conversations[1].id)

\* ------------------------------------------------------------------- C14
AutoDetected == lastCall.op = "auto_detect"

\* the ids of the list, in its order
ListIds == [i \in 1..Len(conversations) |-> conversations[i].id]

\* one descriptor per id of ids and nothing else
ExactlyIds(ids) ==
    /\ Len(conversations) = Cardinality(ids)
    /\ {ListIds[i] : i \in 1..Len(ListIds)} = ids

\* ascending numeric id, the ids that are no numbers (key 0) first
AscendingIds ==
    \A i, j \in 1..Len(ListIds) : i < j => SortKey(ListIds[i]) <= SortKey(ListIds[j])

\* the chunks given leave one order only
OrderFixedBy(ids) == \A order \in SortedOrders(ids) : ListIds = order

\* C14: after autoDetect(chunks) the list holds, whatever it held before,
\* exactly one descriptor per distinct conversation_id of chunks and nothing
\* else, in ascending numeric order with the non-numeric ids first, and
\* that order is a function of chunks alone.
C14_AutoDetectExact ==
    AutoDetected =>
        LET ids == DocIds(lastCall.documents)
        IN  /\ ExactlyIds(ids)
            /\ AscendingIds
            /\ OrderFixedBy(ids)

\* the parts of C14 one by one: chunks with an id give exactly their ids in
\* key order; chunks without any id leave the list; the order is fixed
AutoDetectWithIds ==
    (AutoDetected /\ DocIds(lastCall.documents) # {}) =>
        (ExactlyIds(DocIds(lastCall.documents)) /\ AscendingIds)

AutoDetectNoIds ==
    (AutoDetected /\ DocIds(lastCall.documents) = {}) => conversations = <<>>

AutoDetectOrder ==
    AutoDetected /\ DocIds(lastCall.documents) # {} =>
        OrderFixedBy(DocIds(lastCall.documents))

\* ------------------------------------------------------------------- C15
\* C15: with a catalog without descriptors route returns None, for every
\* query and both values of use_ai, and the language model is not invoked.
C15_EmptyCatalogNoFilter ==
    (Routed /\ conversations = <<>>) =>
        /\ lastCall.ret = Ret(None)
        /\ lastCall.response = NoResponse

\* a call on the empty catalog that asked for the language model, which
\* the router holds
C15_Witness ==
    /\ Routed
    /\ conversations = <<>>
    /\ lastCall.use_ai
    /\ llm

\* ------------------------------------------------------------------- C16
\* C16: every call of route returns in the end, also when the language
\* model never answers: a call that waits for it stops waiting.
C16_RouteReturns == pending.waiting ~> ~pending.waiting

\* the calls whose collaborator does answer return
AnsweredReturns == (pending.waiting /\ pending.answers) ~> ~pending.waiting

\* ------------------------------------------------------------------- C11
\* every candidate handed in stands once in the result, with its place in
\* the list handed in
IsPermutation ==
    /\ Len(rr_ranked) = Len(rr_candidates)
    /\ {rr_ranked[i].pos : i \in 1..Len(rr_ranked)} = 1..Len(rr_candidates)
    /\ \A i \in 1..Len(rr_ranked) : rr_ranked[i].chunk = rr_candidates[rr_ranked[i].pos]

\* C11: rerank returns the candidates by descending total score, ties by
\* ascending place in the list handed in: the result is a permutation of
\* the input and candidates of equal score (two without any score, above
\* all) keep their order, which leaves one order only for a query and a
\* list of candidates.
C11_RankedStable ==
    rr_done =>
        /\ IsPermutation
        /\ \A i \in 1..Len(rr_ranked) :
               rr_ranked[i].score =
                   TotalScore(rr_weights, rr_query, rr_candidates[rr_ranked[i].pos])
        /\ \A i, j \in 1..Len(rr_ranked) :
               i < j => \/ rr_ranked[i].score > rr_ranked[j].score
                        \/ /\ rr_ranked[i].score = rr_ranked[j].score
                           /\ rr_ranked[i].pos < rr_ranked[j].pos

\* two different chunks of equal score, kept in their order
C11_Witness ==
    /\ rr_done
    /\ Len(rr_ranked) = 2
    /\ rr_ranked[1].score = rr_ranked[2].score
    /\ rr_ranked[1].chunk # rr_ranked[2].chunk
    /\ rr_ranked[1].pos = 1

\* a list put in another order: the second candidate scores higher
RerankReorders ==
    /\ rr_done
    /\ Len(rr_ranked) = 2
    /\ rr_ranked[1].pos = 2

\* ------------------------------------------------------------------- C12
\* the i-th candidate is the j-th with one primary phrase more in its
\* Deal-Context section
WithPhrase(i, j) ==
    /\ Has(LowerText(rr_candidates[j]), DealContextMarker)
    /\ \E ph \in PrimaryPhrases :
           /\ ~Contains(Surface(rr_candidates[j]), ph)
           /\ rr_candidates[i] = AddPhrase(rr_candidates[j], ph)

RankOf(p) == CHOOSE k \in 1..Len(rr_ranked) : rr_ranked[k].pos = p

ScoreOf(p) == rr_ranked[RankOf(p)].score

SwitchedOff(w, q, chunk) ==
    PhraseScore(w, q, chunk) + SecondaryScore(w, chunk)
    + TermScore(w, q, chunk) + OutcomeScore(w, q, chunk)

MonotoneWithinPrimary ==
    rr_done =>
        \A i, j \in 1..Len(rr_candidates) :
            (WithPhrase(i, j)
               /\ SwitchedOff(rr_weights, rr_query, rr_candidates[j]) <= rr_weights.primary)
            => ScoreOf(i) >= ScoreOf(j)

\* ------------------------------------------------------------------- C17
\* a query that ran on a set store with a conversation id selected, passed
\* by the caller or given by the router
Selected == lastQuery.made /\ lastQuery.selected # None

\* C17: whenever a conversation id is selected for a query on an
\* initialised agent, search is called with the filter {conversation_id: id}
\* and query returns a result whose conversation_id is that id; it does not
\* raise and does not search without the filter.
C17_FilteredSearch ==
    Selected =>
        /\ lastQuery.search = "filtered"
        /\ lastQuery.filter = lastQuery.selected
        /\ ~lastQuery.ret.raised
        /\ lastQuery.ret.value.conversation_id = lastQuery.selected

\* core/rag_agent.py in local mode alone
CoreFilteredSearch ==
    (Selected /\ ag_kind = "core" /\ local_mode) => C17_FilteredSearch

\* ------------------------------------------------------------------- C18
\* C18: an agent created with local_mode=True has no LLM client and no
\* router, no sequence of load_documents, initialize, query and
\* clear_database invokes a language model, and an answer is built from the
\* retrieved documents only.
C18_LocalModeNoLlm ==
    local_mode =>
        /\ ~ag_llm
        /\ ~ag_router
        /\ ~llm_invoked
        /\ ~lastQuery.routed
        /\ ~lastQuery.answered_by_llm
        /\ (lastQuery.made /\ ~lastQuery.ret.raised
              /\ lastQuery.ret.value.sources # <<>>)
           => lastQuery.ret.value.answer[1] = "local"

\* a local agent that was given a key and asked for routing, at the end of
\* a run whose last query was answered from documents
C18_Witness ==
    /\ local_mode
    /\ api_key
    /\ ag_kind = "legacy"
    /\ ag_steps = MaxAgentSteps
    /\ lastQuery.made
    /\ ~lastQuery.ret.raised
    /\ lastQuery.ret.value.answer[1] = "local"

\* ------------------------------------------------------------------- C19
Quiet ==
    /\ lastQuery.ret = Ret(NotInitialized)
    /\ lastQuery.search = "none"
    /\ ~lastQuery.routed
    /\ ~lastQuery.answered_by_llm

\* C19: query searches only if initialize() has been called since the
\* agent was created or last cleared; in every other state, after
\* load_documents alone too, it returns the "Agent not initialized" result
\* with no sources and no conversation id, without search, router or LLM.
C19_SearchOnlyInitialized ==
    (lastQuery.made /\ ~lastQuery.was_initialized) => Quiet

\* C19 as amended: query searches only if, since the agent was created or
\* last cleared, initialize() was called or load_documents added a
\* document; in every other state it returns the "Agent not initialized"
\* result without search, router or LLM.
C19_SearchOnlyWithStore ==
    (lastQuery.made /\ ~lastQuery.was_initialized /\ ~lastQuery.was_loaded) => Quiet

\* a query with an explicit id, refused at the end of a run that left no store
C19_Witness ==
    /\ lastQuery.made
    /\ ~lastQuery.was_initialized
    /\ ~lastQuery.was_loaded
    /\ lastQuery.explicit # None
    /\ ag_steps = MaxAgentSteps
    /\ disk = {}
    /\ ~vector_store
    /\ Quiet

\* a query after load_documents alone, which searches
SearchAfterLoadAlone ==
    /\ lastQuery.made
    /\ ~lastQuery.was_initialized
    /\ lastQuery.was_loaded
    /\ lastQuery.search = "unfiltered"

\* ------------------------------------------------------------------- C20
\* a query of core/rag_agent.py that went to the search and returned
CoreAnswered ==
    /\ ag_kind = "core"
    /\ lastQuery.made
    /\ lastQuery.search # "none"
    /\ ~lastQuery.ret.raised

IntIds == {IntId(i) : i \in 1..(MaxSections + 1)}

ExplicitIdReturned ==
    /\ CoreAnswered
    /\ lastQuery.explicit = "2.1"
    /\ lastQuery.ret.value.conversation_id = "2.1"

\* ------------------------------------------------------------------- C21
\* a step of the core agent that is a call of query
QueryStep == ag_kind = "core" /\ ag_steps' # ag_steps /\ history' # {}

\* query changed nothing the agent or its store holds
AgentUntouched ==
    UNCHANGED <<vector_store, disk, local_mode, api_key, ag_llm, ag_router, ag_kind,
                initialized, loaded, conversations, detected_conversations>>

\* the earlier results of the query made in this step
Earlier == {h \in history : /\ h.question = lastQuery'.question
                             /\ h.explicit = lastQuery'.explicit}

Returned(ret) == ~ret.raised

TopConversation(ret) ==
    IF ret.value.sources = <<>> THEN NoMetadataId ELSE ret.value.sources[1]

RepeatedWithLlm ==
    /\ ag_kind = "core"
    /\ ~local_mode
    /\ \E h \in history :
           /\ h.times >= 2
           /\ h.question = lastQuery.question
           /\ h.explicit = lastQuery.explicit
           /\ Returned(h.ret) /\ Returned(lastQuery.ret)
           /\ h.ret.value.answer # lastQuery.ret.value.answer

\* ------------------------------------------------------------------- C22
\* a step in which register_conversation_from_document built a descriptor
Registers ==
    /\ calls' # calls
    /\ lastCall'.op = "register"
    /\ ~AlreadyRegistered(detected_conversations, lastCall'.id)

InVocabulary(keywords) ==
    \A i \in 1..Len(keywords) :
        \E j \in 1..Len(keyword_patterns) : keywords[i] = keyword_patterns[j]

\* C22: the keywords of a descriptor that register_conversation_from_document
\* builds are the terms of the curated vocabulary found in the first 500
\* characters of the sample, in vocabulary order: all of them vocabulary
\* terms, ten at most.
C22_CuratedKeywords ==
    [][Registers =>
          LET keywords == detected_conversations'[lastCall'.id].keywords
          IN  /\ keywords = extract_keywords_curated(
                                Prefix(lastCall'.sample, KeywordSampleLimit))
              /\ InVocabulary(keywords)
              /\ Len(keywords) <= CuratedLimit]_vars

\* what the code does: the frequency mode runs on the same 500 characters
FrequencyKeywords ==
    [][Registers =>
          detected_conversations'[lastCall'.id].keywords
              = extract_keywords(Prefix(lastCall'.sample, KeywordSampleLimit))]_vars

\* a registered descriptor with a keyword that is no vocabulary term
KeywordOutsideVocabulary ==
    \E id \in DOMAIN detected_conversations :
        ~InVocabulary(detected_conversations[id].keywords)

\* ------------------------------------------------------------------- C23
\* the language model was reached in the call made last and gave text
LlmAnswered == Routed /\ lastCall.use_ai /\ lastCall.response.kind = "text"

SaidNone == Normalize(lastCall.response.content) = <<"none">>

SaidCatalogId == IdExists(conversations, Normalize(lastCall.response.content))

\* C23: when the language model answers "none" (trimmed, lower-cased),
\* route returns None whatever keyword_route gives for the query; when it
\* answers an id of the catalog, route returns that id. The result of
\* keyword_route is returned from the augmented path only when the call
\* failed or the id is not in the catalog.
C23_NoneMeansNoFilter ==
    LlmAnswered =>
        /\ SaidNone => lastCall.ret = Ret(None)
        /\ (~SaidNone /\ SaidCatalogId) =>
               lastCall.ret = Ret(Normalize(lastCall.response.content)[1])

\* the model said "none" for a query that keyword_route sends to a
\* conversation, and route returned None
C23_Witness ==
    /\ LlmAnswered
    /\ SaidNone
    /\ lastCall.ret = Ret(None)
    /\ ~keyword_route(conversations, lastCall.query).raised
    /\ keyword_route(conversations, lastCall.query).value # None

\* the model named a conversation other than the one keyword_route picks
LlmOverridesKeywords ==
    /\ LlmAnswered
    /\ SaidCatalogId
    /\ ~keyword_route(conversations, lastCall.query).raised
    /\ keyword_route(conversations, lastCall.query).value \notin {None, lastCall.ret.value}

\* ------------------------------------------------------------------- C24
\* the tags stand in the text one after the other, from offset from on
RECURSIVE FollowInText(_, _, _)
FollowInText(stage, t, from) ==
    IF stage = <<>> THEN TRUE
    ELSE LET tag == Head(stage)
             P == {p \in from..(Len(t) - Len(tag) + 1) :
                      SubSeq(t, p, p + Len(tag) - 1) = tag}
         IN  /\ P # {}
             /\ FollowInText(Tail(stage), t, Min(P) + Len(tag))

\* the words that make the free-text extractor give a stage tag
StageWords(tag) ==
    CASE tag = <<"discovery">> -> {"discovery", "qualification"}
      [] tag = <<"final">>     -> {"final", "closing", "negotiation"}
      [] tag = <<"proposal">>  -> {"proposal", "demo", "evaluation"}
      [] tag = <<"renewal">>   -> {"renewal", "upsell"}

DealSizeWords ==
    {"small", "~2k", "2000", "medium", ">5k", "5000", "large", "enterprise"}

FirstSeen(t, tag) ==
    Min({i \in 1..Len(t) : TokenHas(t[i]) \cap StageWords(tag) # {}})

InOrderSeen(stage, t) ==
    \A i, j \in 1..Len(stage) : i < j => FirstSeen(t, stage[i]) <= FirstSeen(t, stage[j])

LabelIn(t, label) == \E i \in 1..Len(t) : EndsWith(t[i], label)

\* the conditions the header-label extractor gave for a sample
HeaderConditionsOk(conditions, t) ==
    /\ HasKey(conditions, "stage") => FollowInText(conditions.stage, t, 1)
    /\ \A f \in {"stage", "type"} : ~LabelIn(t, f) => ~HasKey(conditions, f)
    /\ ~LabelIn(t, "size") => ~HasKey(conditions, "deal_size")
    /\ DOMAIN conditions \subseteq {"deal_size", "stage", "type"}

\* the conditions the free-text extractor gave for a sample
FreeTextOmits(conditions, t) ==
    /\ ~(\E i \in 1..Len(t) : TokenHas(t[i]) # {}) => conditions = NoFields
    /\ HasKey(conditions, "stage") => conditions.stage # <<>>
    /\ (~LtOneK(t) /\ ~SearchAny(t, DealSizeWords)) => ~HasKey(conditions, "deal_size")
    /\ DOMAIN conditions \subseteq {"deal_size", "stage"}

FreeTextConditionsOk(conditions, t) ==
    /\ HasKey(conditions, "stage") => InOrderSeen(conditions.stage, t)
    /\ FreeTextOmits(conditions, t)

\* a step in which auto_detect_from_documents rebuilt the list
AutoDetects ==
    /\ calls' # calls
    /\ lastCall'.op = "auto_detect"
    /\ DocIds(lastCall'.documents) # {}

\* C24: in the conditions of a descriptor, built by the header-label
\* extractor (register_conversation_from_document) or by the free-text
\* extractor (auto_detect_from_documents), the stage tags stand in the order
\* in which they first appear in the text, and a field without a match is
\* left out.
C24_StageOrder ==
    [][/\ Registers =>
              HeaderConditionsOk(detected_conversations'[lastCall'.id].conditions,
                                 Prefix(lastCall'.sample, SampleLimit))
       /\ AutoDetects =>
              \A i \in 1..Len(conversations') :
                  FreeTextConditionsOk(
                      conversations'[i].conditions,
                      SampleText(lastCall'.documents, conversations'[i].id))]_vars

\* what holds of the header-label extractor
HeaderStageOrder ==
    [][Registers =>
          HeaderConditionsOk(detected_conversations'[lastCall'.id].conditions,
                             Prefix(lastCall'.sample, SampleLimit))]_vars

\* what holds of the free-text extractor: fields without a match are left
\* out, the tags stand in the order discovery, final, proposal, renewal
FreeTextFixedOrder ==
    [][AutoDetects =>
          \A i \in 1..Len(conversations') :
              LET conditions == conversations'[i].conditions
                  Rank(tag) == CASE tag = <<"discovery">> -> 1 [] tag = <<"final">> -> 2
                                 [] tag = <<"proposal">> -> 3 [] tag = <<"renewal">> -> 4
              IN  /\ FreeTextOmits(conditions,
                                   SampleText(lastCall'.documents, conversations'[i].id))
                  /\ HasKey(conditions, "stage") =>
                         \A a, b \in 1..Len(conditions.stage) :
                             a < b => Rank(conditions.stage[a]) < Rank(conditions.stage[b])]_vars

\* a descriptor whose stage tags the header-label extractor took from a
\* line that names two stages
TwoHeaderStages ==
    \E id \in DOMAIN detected_conversations :
        /\ HasKey(detected_conversations[id].conditions, "stage")
        /\ Len(detected_conversations[id].conditions.stage) = 2

\* ------------------------------------------------------------------- C25
HasDealContext(chunk) == Has(LowerText(chunk), DealContextMarker)

\* the text of the chunk before its first "outcome:", all of it without one
BeforeOutcome(chunk) ==
    LET t == LowerText(chunk)
        K == {i \in 1..Len(t) : t[i] = OutcomeMarker}
    IN  IF K = {} THEN t ELSE SubSeq(t, 1, Min(K) - 1)

\* the chunk with the text after its first "outcome:" taken away
CutAfterOutcome(chunk) ==
    LET K == {i \in 1..Len(chunk) : Lower(chunk[i]) = OutcomeMarker}
    IN  IF K = {} THEN chunk ELSE SubSeq(chunk, 1, Min(K))

\* the tiers scored on the surface alone, and the cross-section tier
SurfaceTiers(w, q, chunk) ==
    <<PrimaryScore(w, chunk), PhraseScore(w, q, chunk), SecondaryScore(w, chunk),
      TermScore(w, q, chunk), RareScore(RareCombinations(w), chunk)>>

ScopedTiers(w, q, chunk) == SurfaceTiers(w, q, chunk) \o <<CrossScore(w, q, chunk)>>

\* a candidate without "deal context:" scores on the outcome tier alone
NoContextNoScore(r) ==
    ~HasDealContext(r.chunk) =>
        /\ Surface(r.chunk) = <<>>
        /\ ScopedTiers(rr_weights, rr_query, r.chunk) = <<0, 0, 0, 0, 0, 0>>
        /\ r.score = OutcomeScore(rr_weights, rr_query, r.chunk)

\* C25 as stated: a candidate without "deal context:" has an empty surface
\* and 0 from the primary, phrase, secondary, term, cross-section and rare
\* tiers; for one that has it the surface is the text before the first
\* "outcome:", and the text after the marker adds nothing to those tiers.
C25_Isolation ==
    rr_done =>
        \A i \in 1..Len(rr_ranked) :
            LET r == rr_ranked[i]
            IN  /\ NoContextNoScore(r)
                /\ HasDealContext(r.chunk) =>
                       /\ Surface(r.chunk) = BeforeOutcome(r.chunk)
                       /\ ScopedTiers(rr_weights, rr_query, r.chunk)
                             = ScopedTiers(rr_weights, rr_query, CutAfterOutcome(r.chunk))

\* C25 (amended): the same, with the cross-section tier left out of the
\* second half: the text after the marker adds nothing to the primary,
\* phrase, secondary, term and rare tiers, and adds to the cross-section
\* tier, which is 0 without it.
C25_IsolationButCross ==
    rr_done =>
        \A i \in 1..Len(rr_ranked) :
            LET r == rr_ranked[i]
            IN  /\ NoContextNoScore(r)
                /\ HasDealContext(r.chunk) =>
                       /\ Surface(r.chunk) = BeforeOutcome(r.chunk)
                       /\ SurfaceTiers(rr_weights, rr_query, r.chunk)
                             = SurfaceTiers(rr_weights, rr_query, CutAfterOutcome(r.chunk))
                       /\ CrossScore(rr_weights, rr_query, CutAfterOutcome(r.chunk)) = 0

\* a ranking with a candidate without "deal context:" whose outcome text
\* scores, and a candidate with it whose outcome text holds a word of the
\* query and whose surface scores
C25_Witness ==
    /\ rr_done
    /\ \E i \in 1..Len(rr_ranked) :
           /\ ~HasDealContext(rr_ranked[i].chunk)
           /\ rr_ranked[i].score > 0
    /\ \E i \in 1..Len(rr_ranked) :
           /\ HasDealContext(rr_ranked[i].chunk)
           /\ \E k \in 1..Len(rr_query) :
                  Contains(OutcomeSection(rr_ranked[i].chunk), <<Lower(rr_query[k])>>)
           /\ SurfaceTiers(rr_weights, rr_query, rr_ranked[i].chunk) # <<0, 0, 0, 0, 0>>

\* the outcome text raised the cross-section tier of a candidate
OutcomeAddsToCross ==
    /\ rr_done
    /\ \E i \in 1..Len(rr_ranked) :
           /\ HasDealContext(rr_ranked[i].chunk)
           /\ CrossScore(rr_weights, rr_query, rr_ranked[i].chunk) > 0

\* ------------------------------------------------------------------- C26
\* the call made last was a route that returned an id
RoutedToId == Routed /\ ~lastCall.ret.raised /\ lastCall.ret.value # None

\* the language model named an id that no descriptor has
SaidUnknownId ==
    /\ lastCall.response.kind = "text"
    /\ ~SaidNone
    /\ ~SaidCatalogId

\* C26: a value other than None that route returns, by keywords or through
\* the language model, is the id of a descriptor of the catalog; an id that
\* the language model names and the catalog does not hold is not returned.
C26_ReturnedIdInCatalog ==
    RoutedToId =>
        /\ InList(conversations, lastCall.ret.value)
        /\ SaidUnknownId => <<lastCall.ret.value>> # Normalize(lastCall.response.content)

\* the language model named an id outside the catalog and route returned
\* the id that the keywords select
C26_Witness ==
    /\ RoutedToId
    /\ lastCall.use_ai
    /\ SaidUnknownId
    /\ Len(Normalize(lastCall.response.content)) = 1
    /\ InList(conversations, lastCall.ret.value)

\* an id that the language model named was returned
LlmIdReturned ==
    /\ RoutedToId
    /\ lastCall.response.kind = "text"
    /\ <<lastCall.ret.value>> = Normalize(lastCall.response.content)

\* ------------------------------------------------------------------- C27
\* C27: when register_conversation_from_document(id, sample) has returned,
\* whatever registrations and auto-detections came before it, the catalog
\* holds a descriptor for id: get_conversation_info(id) is not None.
C27_RegisteredIsListed ==
    lastCall.op = "register" =>
        get_conversation_info(conversations, lastCall.id) # <<>>

\* what the code keeps: the id is among the detected conversations
RegisteredIsDetected ==
    lastCall.op = "register" =>
        AlreadyRegistered(detected_conversations, lastCall.id)

\* a registration that returned while the list holds no descriptor for
\* the id
RegisteredNotListed ==
    /\ lastCall.op = "register"
    /\ AlreadyRegistered(detected_conversations, lastCall.id)
    /\ ~InList(conversations, lastCall.id)

\* ------------------------------------------------------------------- C28
\* the conversation id of a chunk (None for the intro) with its index
PairOf(d) ==
    <<IF HasId(d) THEN d.metadata.conversation_id ELSE None, d.metadata.chunk>>

SameConversation(d, e) == PairOf(d)[1] = PairOf(e)[1]

\* Where a chunk starts in the text.
StartOf(d) == Min(Offsets(d))

\* no conversation number stands in two headers
NoRepeatedNumber ==
    \A k, l \in 1..Len(Found) :
        k # l => HeaderId(text[Found[k].h]) # HeaderId(text[Found[l].h])

\* C28 as stated: in what one call returns, conversation id and chunk index
\* together name one chunk, and among the chunks of one conversation id a
\* higher index means no earlier place in the text, also when a conversation
\* number stands in two headers.
C28_PairIdentifies ==
    Segmented =>
        \A i, j \in 1..Len(Emitted) :
            LET d == Emitted[i]
                e == Emitted[j]
            IN  /\ i # j => PairOf(d) # PairOf(e)
                /\ (SameConversation(d, e) /\ d.metadata.chunk < e.metadata.chunk)
                       => StartOf(d) <= StartOf(e)

\* C28 (amended): the chunks of one span carry the indices 0, 1, 2, ... in
\* the order of the text (a chunk starts no earlier than the chunk before
\* it; two chunks that overlap can start at the same place once their
\* white space is stripped); conversation id and index together name one
\* chunk when no conversation number stands in two headers.
C28_IndexWithinSpan ==
    Segmented =>
        LET ds == Emitted
            ms == Found
            Before(i) == {k \in 1..(i - 1) : SpanOf(ds[k], ms) = SpanOf(ds[i], ms)}
        IN  /\ \A i \in 1..Len(ds) : ds[i].metadata.chunk = Cardinality(Before(i))
            /\ \A i, j \in 1..Len(ds) :
                   (SpanOf(ds[i], ms) = SpanOf(ds[j], ms)
                    /\ ds[i].metadata.chunk < ds[j].metadata.chunk)
                       => StartOf(ds[i]) <= StartOf(ds[j])
            /\ NoRepeatedNumber =>
                   \A i, j \in 1..Len(ds) :
                       /\ i # j => PairOf(ds[i]) # PairOf(ds[j])
                       /\ (SameConversation(ds[i], ds[j])
                           /\ ds[i].metadata.chunk < ds[j].metadata.chunk)
                              => StartOf(ds[i]) <= StartOf(ds[j])

\* one conversation number in two headers, each span cut into two chunks
C28_Witness ==
    /\ "processing" \in called
    /\ ~NoRepeatedNumber
    /\ \E i, j \in 1..Len(docs) :
           /\ SpanOf(docs[i], Found) # SpanOf(docs[j], Found)
           /\ PairOf(docs[i]) = PairOf(docs[j])
           /\ docs[i].metadata.chunk = 1

\* a span of the only header with its number, cut into two chunks
TwoChunksOneHeader ==
    /\ "processing" \in called
    /\ NoRepeatedNumber
    /\ \E i \in 1..Len(docs) : docs[i].metadata.chunk = 1

\* ------------------------------------------------------------------- C29
\* the conversation ids of the documents that the last clear removed
RemovedIds(c) == {d.conversation_id : d \in c.removed}

\* C29: a query made after clear_database, with neither initialize nor a
\* load_documents that added a document in between, returns the "Agent
\* not initialized" result with no sources; no document that the clear
\* removed is among its sources.
C29_ClearedNotInitialized ==
    (lastQuery.made /\ lastQuery.was_cleared.on) =>
        /\ ~lastQuery.ret.raised
        /\ lastQuery.ret.value = NotInitialized
        /\ lastQuery.ret.value.sources = <<>>
        /\ lastQuery.search = "none"

\* a query for a conversation whose document the clear removed, refused
C29_Witness ==
    /\ lastQuery.made
    /\ lastQuery.was_cleared.on
    /\ lastQuery.explicit \in RemovedIds(lastQuery.was_cleared)
    /\ lastQuery.ret = Ret(NotInitialized)

\* after the clear and an initialize the query searches again
SearchAfterClearAndInitialize ==
    /\ lastQuery.made
    /\ ~lastQuery.was_cleared.on
    /\ lastQuery.was_initialized
    /\ ~lastQuery.was_loaded
    /\ lastQuery.search # "none"
    /\ ag_steps = MaxAgentSteps

\* ================================================ concurrent registration spec
\* Two callers run register_conversation_from_document on one router with no
\* lock between them (the method takes none).  A call is cut where another
\* thread can run between two accesses to the shared dict and list:
\*   "start"     before the test of line 30
\*   "build"     after line 30 found the id missing, up to the store of line 48
\*   "test_list" after line 48, before the test of line 51
\*   "append"    after line 51 found the id missing, before the append of line 52
\*   "done"      returned
\* A dict lookup, a dict store and a list append are each one step of the
\* interpreter; the scan of line 51 sees every descriptor appended before it
\* ends, so it is one step at the moment it ends.

Other(t) == CHOOSE u \in Threads : u # t

InFlight(t) == threads[t].pc \notin {"start", "done"}

\* thread t moves on; it is no longer alone once it runs inside another call
Goes(t, pc) ==
    threads' = [threads EXCEPT ![t].pc = pc,
                               ![t].alone = @ /\ ~InFlight(Other(t))]

ThreadFrame == UNCHANGED <<llm, lastCall, prevCall, calls, pending,
                           splitVars, rerankVars, agentVars>>

\* line 30-31: if conversation_id in self.detected_conversations: return
TestDetected(t) ==
    /\ threads[t].pc = "start"
    /\ Goes(t, IF AlreadyRegistered(detected_conversations, threads[t].conversation_id)
               THEN "done" ELSE "build")
    /\ UNCHANGED <<conversations, detected_conversations>>
    /\ ThreadFrame

\* lines 33-48: conv_info is built and stored under the id
StoreDetected(t) ==
    /\ threads[t].pc = "build"
    /\ detected_conversations' =
           (threads[t].conversation_id :>
                ConvInfo(threads[t].conversation_id, threads[t].content_sample))
           @@ detected_conversations
    /\ Goes(t, "test_list")
    /\ UNCHANGED conversations
    /\ ThreadFrame

\* line 51 taken as if the id were never listed
TestListSkipped(t) ==
    /\ threads[t].pc = "test_list"
    /\ Goes(t, "append")
    /\ UNCHANGED <<conversations, detected_conversations>>
    /\ ThreadFrame

\* line 51: if not any(c['id'] == conversation_id for c in self.conversations)
TestList(t) ==
    /\ threads[t].pc = "test_list"
    /\ Goes(t, IF InList(conversations, threads[t].conversation_id)
               THEN "done" ELSE "append")
    /\ UNCHANGED <<conversations, detected_conversations>>
    /\ ThreadFrame

\* line 52: self.conversations.append(conv_info)
AppendInfo(t) ==
    /\ threads[t].pc = "append"
    /\ conversations' =
           Append(conversations,
                  ConvInfo(threads[t].conversation_id, threads[t].content_sample))
    /\ Goes(t, "done")
    /\ UNCHANGED detected_conversations
    /\ ThreadFrame

\* both calls are made, each with its own arguments, on a fresh router
InitConcurrent ==
    /\ conversations \in StaticCatalogs
    /\ detected_conversations = <<>>
    /\ llm = FALSE
    /\ lastCall = NoCall
    /\ prevCall = Brief(NoCall)
    /\ calls = 0
    /\ pending = NoPending
    /\ threads \in [Threads ->
                      {[pc |-> "start", conversation_id |-> conversation_id,
                        content_sample |-> content_sample, alone |-> TRUE] :
                           conversation_id \in RegisterIds, content_sample \in Samples}]
    /\ SplitIdle
    /\ RerankIdle
    /\ AgentIdle

NextConcurrent ==
    \E t \in Threads :
        \/ TestDetected(t)
        \/ StoreDetected(t)
        \/ TestList(t)
        \/ AppendInfo(t)

SpecConcurrent == InitConcurrent /\ [][NextConcurrent]_vars

\* ------------------------------------------------------------------- C30
BothReturned == \A t \in Threads : threads[t].pc = "done"

\* how many descriptors of the list carry the id
Listed(conversation_id) ==
    Cardinality({i \in DOMAIN conversations : conversations[i].id = conversation_id})

SameId == threads["A"].conversation_id = threads["B"].conversation_id

\* one call returned before the other made its first step
OneAfterTheOther == \A t \in Threads : threads[t].alone

SerialSameId ==
    /\ BothReturned
    /\ SameId
    /\ OneAfterTheOther
    /\ Listed(threads["A"].conversation_id) = 1
    /\ Len(conversations) > 1

\* two calls with one id overlapped and the id is listed twice
ListedTwice ==
    /\ BothReturned
    /\ SameId
    /\ ~OneAfterTheOther
    /\ Listed(threads["A"].conversation_id) = 2
====
